---- MODULE Spec2Model ----
(***************************************************************************)
(* A state-machine model of ross/fluid_flow/cylindrical.py, the class      *)
(* THDCylindrical: the thermo-hydrodynamic coupling loop (_forces), the    *)
(* equilibrium search (run, _score) and the dynamic-coefficient            *)
(* extraction (coefficients, _pertubation_method, _lund_method).           *)
(*                                                                         *)
(* Numbers.  The source computes in floating point; the model computes on  *)
(* integer lattices, one per physical quantity:                            *)
(*   angles            units of 30 degrees (0..11), cos/sin as tenths      *)
(*   X, Y, Xpt, Ypt    units of 1e-4 (clearance ratios)                    *)
(*   film thickness h  units of 1e-5                                       *)
(*   viscosity mu      units of 1e-3 of mu_ref                             *)
(*   temperature       units of 0.01 degree Celsius, both for the          *)
(*                     dimensional fields and for the dimensionless ones   *)
(*                     (which the source scales by T_reserv)               *)
(*   pressure, force   lattice units (see PDiv, FDiv)                      *)
(* The two dense linear solves (np.linalg.solve) are modelled by their     *)
(* dominant terms: the pressure of a cell is its source term over its      *)
(* diagonal conductance, and the temperature of a cell is the upwind value *)
(* of its west neighbour plus the heating of the cell.  Control flow,      *)
(* data flow between the fields, aliasing of the arrays and every test of  *)
(* the loops are those of the source.                                      *)
(*                                                                         *)
(* Left out.  The flow stays laminar (delta_turb = 0, lines 617-638), so   *)
(* mu_turb equals mu; of the energy source only the viscous and the        *)
(* pressure-gradient heating are kept (b_TI, b_TJ, b_TK); the viscosity    *)
(* law a * T ** b is a decreasing rational function of the temperature.    *)
(*                                                                         *)
(* The minimizer is scipy's, outside the repository: it is a direct search *)
(* on a lattice of trial points that, like Nelder-Mead, evaluates _score   *)
(* at one point after another, stops when no neighbour of the best point   *)
(* is left or at the iteration limit, and returns the best point it        *)
(* evaluated, even if that was not the last one it evaluated.              *)
(***************************************************************************)
EXTENDS Integers, Sequences, FiniteSets, TLC

(***************************************************************************)
(* Configuration of the modelled bearing (constructor arguments).          *)
(***************************************************************************)
n_pad == 2
n_z == 2
n_theta == 3
betha_s_dg == 180
T_reserv == 5000
Wx == -4900
Wy == -5700

\* fat_mixt pairs (per cent of reservoir oil mixed in at the inlet of each pad)
FatMixtSet == { <<52, 48>>, <<100, 10>>, <<14, 69>> }

Pads  == 0 .. (n_pad - 1)
Rows  == 0 .. (n_z - 1)
Cols  == 0 .. (n_theta - 1)
Cells == Rows \X Cols \X Pads

Abs(v) == IF v < 0 THEN -v ELSE v

\* floor of the square root of a natural number
RECURSIVE ISqrtIn(_, _, _)
ISqrtIn(v, lo, hi) ==
  IF lo = hi THEN lo
  ELSE LET mid == (lo + hi + 1) \div 2
       IN  IF mid * mid <= v THEN ISqrtIn(v, mid, hi) ELSE ISqrtIn(v, lo, mid - 1)
\* np.sqrt on the integers: the largest r with r * r <= v
ISqrt(v) == ISqrtIn(v, 0, 46340)

\* np.cos, np.sin on the angle lattice (units of 30 degrees), in tenths
CosTable == << 10, 9, 5, 0, -5, -9, -10, -9, -5, 0, 5, 9 >>
Cos10(k) == CosTable[(k % 12) + 1]
Sin10(k) == Cos10(k + 9)

\* dtheta = betha_s / n_theta, in 30-degree units (line 182), and its half
dtheta2 == betha_s_dg \div (n_theta * 30)
dthetaHalf == dtheta2 \div 2

\* thetaI[p] = pad_ct[p] + 180/n_pad - betha_s_dg/2, in 30-degree units
pad_ct(p) == (p * (360 \div n_pad)) \div 30
thetaI(p) == pad_ct(p) + ((180 \div n_pad) \div 30) - ((betha_s_dg \div 2) \div 30)
thetaF(p) == pad_ct(p) + ((180 \div n_pad) \div 30) + ((betha_s_dg \div 2) \div 30)

\* jj of the assembly loops: the centre of circumferential cell kj of pad p
CellAngle(p, kj) == thetaI(p) + dthetaHalf + kj * dtheta2

\* Ytheta = np.linspace(thetaI[p], thetaF[p], n_theta)[kj]
Ytheta(p, kj) == thetaI(p) + (kj * (thetaF(p) - thetaI(p))) \div (n_theta - 1)

(***************************************************************************)
(* Lattice constants of the field arithmetic.                              *)
(***************************************************************************)
\* 1 - X cos(theta) - Y sin(theta)  (lines 341-351), in units of 1e-5
FilmThickness(Xv, Yv, k) == 100000 - Xv * Cos10(k) - Yv * Sin10(k)

\* viscosity(T) = a * T^b / mu_ref (lines 941-950, 860-862): the power law
\* through (50 C, mu_ref) and (80 C, mu_ref / 2) of the example bearing,
\* on the lattice as the hyperbola through the same two points
MuA == 3000000
MuC == 2000
Viscosity(Tdim) == MuA \div (Tdim - MuC)

PDiv == 2000
HeatK == 3
GradK == 4000
PdimFactor == 2
FDiv == 10

\* tolerances of the two convergence loops
TolMist == 1          \* 1e-2 degree, line 287
TolFieldInv == 1000   \* 1 / 1e-3, line 318
\* initial values of the arrays of an outer pass, lines 292-298 (per mille)
TInit == 1000
\* variant: T_new starts equal to T
TNewInit_AsT == TInit
TNewInit == 1200
MuInit == 1100
TConvInit == 800

(***************************************************************************)
(* State.                                                                  *)
(***************************************************************************)
VARIABLES
  fat_mixt,          \* self.fat_mixt, one entry per pad (per cent)
  equilibrium_pos,   \* self.equilibrium_pos: <<>> is None, else <<ecc, att>>
  X, Y, Xpt, Ypt,    \* self.X, self.Y, self.Xpt, self.Ypt
  P, Pdim,           \* self.P, self.Pdim
  mu_l,              \* self.mu_l
  Fhx, Fhy,          \* self.Fhx, self.Fhy
  T_mist, T_conv,    \* locals of _forces
  T, T_new, mu_new,  \* locals of _forces (arrays of the current outer pass)
  n_p,               \* pad index of the for loop of _forces
  T_ref,             \* local T_ref of _forces (line 321)
  passes,            \* outer passes completed by the running _forces
  prev_mist,         \* T_mist as it stood when the running outer pass began
  last_dT,           \* per pad: squared norms <<|T_new - T|^2, |T|^2>> of the
                     \* last inner iteration's test operands
  pc,                \* position in the running call
  stack,             \* the calls in progress, outermost first
  fargs,             \* arguments of the running (or last) _forces call
  method,            \* argument of the running coefficients call
  sim,               \* minimizer: the trial points evaluated, with their
                     \* score and the fields _forces left for them
  nit,               \* minimizer: iterations done
  Aux,               \* _pertubation_method: Aux01..Aux08 so far
  kc,                \* (k, c) of the last finished method, flattened
  ret,               \* what the last finished API call returned
  hist,              \* the finished _forces calls in order: <<arguments, result>>
  eq_fields,         \* the fields _forces computed at equilibrium_pos
  lund_in,           \* what _lund_method read, if the last API call ran it
  calls,             \* arguments of the _forces calls started since the
                     \* last _pertubation_method / _lund_method began
  nops,              \* API calls started so far
  brg,               \* a bearing from its construction on: the arguments
                     \* __init__ stored and what the later calls did to them
  mesh,              \* the assembly loops of _forces on a mesh of any size
  turb,              \* the turbulence branch of _forces for one cell
  shaft,             \* an ST_ShaftElement and the elements it generated
  par,               \* a second _forces invocation on the same bearing
  speed,             \* self.speed, in units of the speed HeatK is taken at
  seen,              \* a state of the running _forces call, kept for
                     \* comparison with the states it comes to later
  asm                \* the matrices of a pad while they are assembled

inst  == << fat_mixt, equilibrium_pos, X, Y, Xpt, Ypt, P, Pdim, mu_l, Fhx, Fhy >>
locs  == << T_mist, T_conv, T, T_new, mu_new, n_p, T_ref, passes, prev_mist, last_dT >>
ctl   == << pc, stack, fargs, method, sim, nit, Aux, kc, ret >>
ghost == << hist, eq_fields, lund_in, calls, nops >>
aux   == << brg, mesh, turb, shaft, par, speed, seen, asm >>
vars  == << inst, locs, ctl, ghost, aux >>

ConstField(v) == [c \in Cells |-> v]

(***************************************************************************)
(* _forces: the pure field computations.                                   *)
(***************************************************************************)
\* the cells of pad p in the order of the vectorisation index k / cont
NCells == n_z * n_theta
CellOf(p, k) == << (k - 1) \div n_theta, (k - 1) % n_theta, p >>

RECURSIVE SumTo(_, _)
SumTo(f, n) == IF n = 0 THEN 0 ELSE f[n] + SumTo(f, n - 1)

\* variant: a pad reads its own mixed temperature
PrevPad_Own(p) == p
\* T_mist[n_p - 1] with Python's negative index (lines 311, 321)
PrevPad(p) == (p + n_pad - 1) % n_pad

\* x0 mode (lines 235-243): X = x0[0] cos(x0[1]), Y = x0[0] sin(x0[1])
PosX(x) == x[1] * Cos10(x[2]) * 100
PosY(x) == x[1] * Sin10(x[2]) * 100

\* B, the source term of the pressure equation (lines 428-432)
SourceB(Xv, Yv, Xp, Yp, p, kj) ==
  LET jj == CellAngle(p, kj)
      he == FilmThickness(Xv, Yv, jj + dthetaHalf)
      hw == FilmThickness(Xv, Yv, jj - dthetaHalf)
  IN  (he - hw) - (Yp * Cos10(jj) + Xp * Sin10(jj))

\* the neighbours a cell misses at the edges of the pad grid, whose
\* conductances the assembly adds to the diagonal (lines 437-491)
Missing(ki, kj) ==
    (IF ki = 0 THEN 1 ELSE 0) + (IF ki = n_z - 1 THEN 1 ELSE 0)
  + (IF kj = 0 THEN 1 ELSE 0) + (IF kj = n_theta - 1 THEN 1 ELSE 0)

\* p = np.linalg.solve(Mat_coef, b) (line 500), cell by cell: the source
\* term over the diagonal -(4 + missing) / (12 mu)
PressureRaw(Xv, Yv, Xp, Yp, mu, c) ==
  (-(SourceB(Xv, Yv, Xp, Yp, c[3], c[2]) * mu[c])) \div ((4 + Missing(c[1], c[2])) * PDiv)

\* variant: no clamp
Clamp_None(v) == v
\* if self.P[i, j, n_p] < 0: self.P[i, j, n_p] = 0 (lines 509-510)
Clamp(v) == IF v < 0 THEN 0 ELSE v

\* lines 500-510: the pressure of pad p replaced, the other pads kept
PressureSolve(Pf, Xv, Yv, Xp, Yp, mu, p) ==
  [c \in Cells |-> IF c[3] = p THEN Clamp(PressureRaw(Xv, Yv, Xp, Yp, mu, c)) ELSE Pf[c]]

\* self.Pdim = self.P * mu_ref * speed * R^2 / c_r^2 (lines 514-516)
Dimensional(Pf) == [c \in Cells |-> Pf[c] * PdimFactor]

\* pressure gradients, central with a zero outside the grid (lines 535-610)
GradY(Pf, c) ==
  ( (IF c[2] < n_theta - 1 THEN Pf[<< c[1], c[2] + 1, c[3] >>] ELSE 0)
  - (IF c[2] > 0 THEN Pf[<< c[1], c[2] - 1, c[3] >>] ELSE 0) ) \div 2
GradZ(Pf, c) ==
  ( (IF c[1] < n_z - 1 THEN Pf[<< c[1] + 1, c[2], c[3] >>] ELSE 0)
  - (IF c[1] > 0 THEN Pf[<< c[1] - 1, c[2], c[3] >>] ELSE 0) ) \div 2

\* the source of the energy equation of a cell (lines 712-761): viscous
\* heating b_TI ~ speed mu / h and the pressure-gradient heating b_TJ + b_TK
Heat(Pf, Xv, Yv, mu, c) ==
  LET h10 == FilmThickness(Xv, Yv, CellAngle(c[3], c[2])) \div 10000
      gy  == GradY(Pf, c)
      gz  == GradZ(Pf, c)
  IN  (HeatK * speed * mu[c]) \div h10 + ((gy * gy + gz * gz) \div mu[c]) \div GradK

\* t = np.linalg.solve(Mat_coef_T, b_T) (line 839), cell by cell along the
\* flow: the inlet value T_ref enters the cells of column kj = 0
\* (lines 767-790), every other cell takes its west neighbour's value
RECURSIVE TemperatureCell(_, _, _, _, _, _)
TemperatureCell(Pf, Xv, Yv, mu, Tref, c) ==
  (IF c[2] = 0 THEN Tref
   ELSE TemperatureCell(Pf, Xv, Yv, mu, Tref, << c[1], c[2] - 1, c[3] >>))
  + Heat(Pf, Xv, Yv, mu, c)

\* lines 839-846: T_new of pad p replaced, the other pads kept
TemperatureSolve(Tn, Pf, Xv, Yv, mu, Tref, p) ==
  [c \in Cells |-> IF c[3] = p THEN TemperatureCell(Pf, Xv, Yv, mu, Tref, c) ELSE Tn[c]]

\* variant: the mean of the first circumferential column
TEnd_FirstColumn(Tn, p) == SumTo([i \in 1 .. n_z |-> Tn[<< i - 1, 0, p >>]], n_z) \div n_z

\* T_end = np.sum(Tdim[:, -1, n_p]) / n_z (line 850)
TEnd(Tn, p) == SumTo([i \in 1 .. n_z |-> Tn[<< i - 1, n_theta - 1, p >>]], n_z) \div n_z

\* T_mist[n_p] = fat_mixt[n_p] T_reserv + (1 - fat_mixt[n_p]) T_end (lines 852-855)
MixedTemperature(fat, Tend) == (fat * T_reserv + (100 - fat) * Tend) \div 100

\* lines 857-862: mu_new of pad p replaced, the other pads kept
ViscosityUpdate(mu, Tn, p) ==
  [c \in Cells |-> IF c[3] = p THEN Viscosity(Tn[c]) ELSE mu[c]]

\* squared Frobenius norms of the operands of the inner test (lines 316-317)
SqNormDiff(A, B, p) ==
  SumTo([k \in 1 .. NCells |-> (A[CellOf(p, k)] - B[CellOf(p, k)]) * (A[CellOf(p, k)] - B[CellOf(p, k)])], NCells)
SqNorm(A, p) ==
  SumTo([k \in 1 .. NCells |-> A[CellOf(p, k)] * A[CellOf(p, k)]], NCells)

\* an inner test that gives up at a relative change of 1e-1
InnerContinue_GivesUp(Tn, Tc, p) ==
  SqNormDiff(Tn, Tc, p) >= (SqNorm(Tc, p) + 99) \div 100

\* norm(T_new - T) / norm(T) >= 1e-3 (lines 315-319), on squared norms
InnerContinue(Tn, Tc, p) ==
  SqNormDiff(Tn, Tc, p) >= (SqNorm(Tc, p) + TolFieldInv * TolFieldInv - 1) \div (TolFieldInv * TolFieldInv)

\* (T_mist[0] - T_conv) >= 1e-2 (line 287)
OuterContinue(Tm, Tc) == (Tm[0] - Tc) >= TolMist

\* lines 864-896: Fhx = -sum(Pdim dA cos(Ytheta)), Fhy = -sum(Pdim dA sin(Ytheta));
\* ravel("F") pairs cell (i, j) of pad p with Ytheta[p][j]
ForceX(Pd) ==
  (-(SumTo([p \in 1 .. n_pad |->
       SumTo([k \in 1 .. NCells |-> Pd[CellOf(p - 1, k)] * Cos10(Ytheta(p - 1, CellOf(p - 1, k)[2]))], NCells)],
     n_pad))) \div FDiv
ForceY(Pd) ==
  (-(SumTo([p \in 1 .. n_pad |->
       SumTo([k \in 1 .. NCells |-> Pd[CellOf(p - 1, k)] * Sin10(Ytheta(p - 1, CellOf(p - 1, k)[2]))], NCells)],
     n_pad))) \div FDiv

\* score = sqrt((Wx + Fhx)^2 + (Wy + Fhy)^2) (line 1447)
Score(fx, fy) == ISqrt((Wx + fx) * (Wx + fx) + (Wy + fy) * (Wy + fy))

(***************************************************************************)
(* run / _score: the equilibrium search.                                   *)
(***************************************************************************)
MaxEcc == 3
MaxIter == 3
MaxOps == 2

\* the trial lattice of the search: eccentricity ratio in tenths, attitude
\* angle in units of 30 degrees
TrialPoints == (1 .. MaxEcc) \X {10, 11}

\* the initial guess coefficients passes to run (line 973): [0.1, -0.1]
DefaultGuess == << 1, 11 >>

\* scipy.optimize.minimize(self._score, x, method="Nelder-Mead", tol=10e-3,
\* options={"maxiter": 1000}) (lines 911-918) as a direct search on the
\* lattice: the trial points next to the best one are evaluated in a fixed
\* order until none is left or the iteration limit is met
Neighbours(x) ==
  << << x[1] + 1, x[2] >>, << x[1], 21 - x[2] >>, << x[1] - 1, x[2] >> >>

Evaluated(simv) == { simv[i].x : i \in 1 .. Len(simv) }

BestIndex(simv) ==
  CHOOSE i \in 1 .. Len(simv) :
    \A j \in 1 .. Len(simv) :
      simv[i].score < simv[j].score \/ (simv[i].score = simv[j].score /\ i <= j)

Candidates(simv) ==
  SelectSeq(Neighbours(simv[BestIndex(simv)].x),
            LAMBDA n : n \in TrialPoints /\ n \notin Evaluated(simv))

\* variant: the point evaluated last
Result_Last(simv) == simv[Len(simv)]
\* res.x: the best vertex of the final simplex (line 919)
Result(simv) == simv[BestIndex(simv)]

\* res.success: the search ended by itself, not on the iteration limit
Success(simv) == Candidates(simv) = << >>

\* variant: the point of a search that did not succeed is not accepted
Overwrite_IfSuccess(old, x, success) == IF success THEN x ELSE old

\* self.equilibrium_pos = res.x (line 919): res.success is not looked at
Overwrite(old, x, success) == x

(***************************************************************************)
(* _pertubation_method and sommerfeld.                                     *)
(***************************************************************************)
SomK == 1000000
PertK == 1
LoadDiv == 1000

\* sommerfeld_type == 2: Ss = 1 / (2 sqrt(force_x^2 + force_y^2)) (lines 1479-1487)
sommerfeld(force_x, force_y) == SomK \div ISqrt(force_x * force_x + force_y * force_y)

\* epix, epiy (lines 1004-1006) and epixpt, epiypt (lines 1008-1010)
epix(eq) == Abs(Cos10(eq[2]))
epiy(eq) == Abs(Sin10(eq[2]))
epixpt(eq) == Abs(Sin10(eq[2]))
epiypt(eq) == Abs(Cos10(eq[2]))

\* the arguments of the call that computes Aux0k (lines 1012-1020)
PertArgs(eq, k) ==
  LET xeq == PosX(eq)
      yeq == PosY(eq)
  IN  CASE k = 1 -> << xeq + epix(eq), yeq, 0, 0 >>
        [] k = 2 -> << xeq - epix(eq), yeq, 0, 0 >>
        [] k = 3 -> << xeq, yeq + epiy(eq), 0, 0 >>
        [] k = 4 -> << xeq, yeq - epiy(eq), 0, 0 >>
        [] k = 5 -> << xeq, yeq, epixpt(eq), 0 >>
        [] k = 6 -> << xeq, yeq, -epixpt(eq), 0 >>
        [] k = 7 -> << xeq, yeq, 0, epiypt(eq) >>
        [] k = 8 -> << xeq, yeq, 0, -epiypt(eq) >>

\* -sommerfeld(a, b) * (d / eps), scaled by sqrt(Wx^2 + Wy^2) / c_r
\* (lines 1024-1066)
Coef(a, b, d, eps) ==
  (ISqrt(Wx * Wx + Wy * Wy) * ((-(sommerfeld(a, b) * d * PertK)) \div eps)) \div LoadDiv

Kxx(A, eq) == Coef(A[1][1], A[2][2], A[1][1] - A[2][1], epix(eq))
\* variant: Kxy formed from the X-displacement pair
Kxy_WrongPair(A, eq) == Coef(A[1][1], A[2][2], A[1][1] - A[2][1], epiy(eq))
Kxy(A, eq) == Coef(A[3][1], A[4][2], A[3][1] - A[4][1], epiy(eq))
Kyx(A, eq) == Coef(A[1][2], A[2][2], A[1][2] - A[2][2], epix(eq))
Kyy(A, eq) == Coef(A[3][2], A[4][2], A[3][2] - A[4][2], epiy(eq))
Cxx(A, eq) == Coef(A[5][1], A[6][1], A[6][1] - A[5][1], epixpt(eq))
Cxy(A, eq) == Coef(A[7][1], A[8][1], A[8][1] - A[7][1], epiypt(eq))
Cyx(A, eq) == Coef(A[5][2], A[6][2], A[6][2] - A[5][2], epixpt(eq))
Cyy(A, eq) == Coef(A[7][2], A[8][2], A[8][2] - A[7][2], epiypt(eq))

PertCoefficients(A, eq) ==
  << Kxx(A, eq), Kxy(A, eq), Kyx(A, eq), Kyy(A, eq),
     Cxx(A, eq), Cxy(A, eq), Cyx(A, eq), Cyy(A, eq) >>

(***************************************************************************)
(* _lund_method.                                                           *)
(***************************************************************************)
LundGeoK == 100
LundGamK == 10

\* hX = -cos(jj), hY = -sin(jj) (lines 1140-1148); d is "X" or "Y"
hOf(d, k) == IF d = "X" THEN -Cos10(k) ELSE -Sin10(k)

\* pE, pW, pN, pS: the neighbour's pressure, or minus the cell's own at an
\* edge of the grid (lines 1156-1263)
LundNb(Pf, c, di, dj) ==
  IF c[1] + di \in Rows /\ c[2] + dj \in Cols
  THEN Pf[<< c[1] + di, c[2] + dj, c[3] >>]
  ELSE -Pf[c]

\* Re BX (d = "X") or Re BY (d = "Y") of a cell (lines 1274-1296).  X and
\* hP come from equilibrium_pos (lines 1092-1095, 1134), he and hw use
\* self.Y (lines 1135-1136)
LundSource(d, Pf, mu, x0, Yself, c) ==
  LET jj   == CellAngle(c[3], c[2])
      hP10 == FilmThickness(PosX(x0), PosY(x0), jj) \div 10000
      he10 == FilmThickness(PosX(x0), Yself, jj + dthetaHalf) \div 10000
      hw10 == FilmThickness(PosX(x0), Yself, jj - dthetaHalf) \div 10000
      pP   == Pf[c]
  IN  (hOf(d, jj + dthetaHalf) - hOf(d, jj - dthetaHalf)) * LundGeoK
      - ( ( 3 * he10 * he10 * hOf(d, jj + dthetaHalf) * (LundNb(Pf, c, 0, 1) - pP)
          + 3 * hw10 * hw10 * hOf(d, jj - dthetaHalf) * (LundNb(Pf, c, 0, -1) - pP)
          + 3 * hP10 * hP10 * hOf(d, jj) * (LundNb(Pf, c, 1, 0) + LundNb(Pf, c, -1, 0) - 2 * pP) )
          \div (12 * mu[c]) )

\* the first-order pressure of a cell: the source over the diagonal CP
\* (lines 1266-1272, 1300-1378); real part and imaginary part
LundPre(d, Pf, mu, x0, Yself, c) ==
  LET hP10 == FilmThickness(PosX(x0), PosY(x0), CellAngle(c[3], c[2])) \div 10000
  IN  (-(LundSource(d, Pf, mu, x0, Yself, c) * mu[c]))
        \div ((4 + Missing(c[1], c[2])) * hP10 * hP10 * hP10)
LundPim(d, mu, x0, c) ==
  LET jj   == CellAngle(c[3], c[2])
      hP10 == FilmThickness(PosX(x0), PosY(x0), jj) \div 10000
  IN  (-(LundGamK * hOf(d, jj) * mu[c])) \div ((4 + Missing(c[1], c[2])) * hP10 * hP10 * hP10)

\* H[d][e] = -integral of the first-order pressure of direction d times
\* hX or hY (lines 1400-1414); f is the integrand, a function of the cell
LundSum(f) ==
  -SumTo([p \in 1 .. n_pad |-> SumTo([k \in 1 .. NCells |-> f[CellOf(p - 1, k)]], NCells)], n_pad)
LundRe(d, e, Pf, mu, x0, Yself) ==
  LundSum([c \in Cells |-> LundPre(d, Pf, mu, x0, Yself, c) * hOf(e, CellAngle(c[3], c[2]))])
LundIm(d, e, mu, x0) ==
  LundSum([c \in Cells |-> LundPim(d, mu, x0, c) * hOf(e, CellAngle(c[3], c[2]))])

\* K = Re H, C = Im H / wp (lines 1416-1430)
LundCoefficients(Pf, mu, x0, Yself) ==
  << LundRe("X", "X", Pf, mu, x0, Yself), LundRe("X", "Y", Pf, mu, x0, Yself),
     LundRe("Y", "X", Pf, mu, x0, Yself), LundRe("Y", "Y", Pf, mu, x0, Yself),
     LundIm("X", "X", mu, x0), LundIm("X", "Y", mu, x0),
     LundIm("Y", "X", mu, x0), LundIm("Y", "Y", mu, x0) >>

\* variant: every method takes the perturbation branch
Dispatch_Perturbation(m) == "_pertubation_method"
\* coefficients: the branch on method (lines 976-979)
Dispatch(m) == IF m = "lund" THEN "_lund_method" ELSE "_pertubation_method"

(***************************************************************************)
(* The state machine.                                                      *)
(***************************************************************************)
\* arguments tried by direct calls of _forces and run
ForcesPoints == { << 2, 9 >>, << 2, 11 >> }
ForcesPairs == { << 1500, -1200, 0, 6 >> }
StartPoints == { DefaultGuess, << 3, 10 >> }
Methods == { "lund", "perturbation" }

None == << >>

Init ==
  /\ fat_mixt \in FatMixtSet
  /\ equilibrium_pos = None
  /\ X = 0 /\ Y = 0 /\ Xpt = 0 /\ Ypt = 0
  /\ P = ConstField(0) /\ Pdim = ConstField(0)
  /\ mu_l = ConstField(MuInit)
  /\ Fhx = 0 /\ Fhy = 0
  /\ T_mist = [p \in Pads |-> T_reserv]
  /\ T_conv = (TConvInit * T_reserv) \div 1000
  /\ T = ConstField((TInit * T_reserv) \div 1000)
  /\ T_new = ConstField((TNewInit * T_reserv) \div 1000)
  /\ mu_new = ConstField(MuInit)
  /\ n_p = 0 /\ T_ref = T_reserv /\ passes = 0
  /\ prev_mist = [p \in Pads |-> T_reserv]
  /\ last_dT = [p \in Pads |-> << 0, 1 >>]
  /\ pc = "idle" /\ stack = << >>
  /\ fargs = [mode |-> "x0", a |-> << 0, 0 >>]
  /\ method = "lund"
  /\ sim = << >> /\ nit = 0 /\ Aux = << >> /\ kc = None
  /\ ret = [op |-> "none", val |-> None]
  /\ hist = << >> /\ eq_fields = << >> /\ lund_in = << >>
  /\ calls = << >> /\ nops = 0
  /\ brg = [ constructed |-> FALSE, err |-> "",
         T_muI |-> 0, T_muF |-> 0, mu_I |-> 0, mu_F |-> 0, a_b |-> << >>,
         fat_mixt |-> [scalar |-> FALSE, v |-> << >>], sommerfeld_type |-> 0,
         thetaI |-> [scalar |-> TRUE, v |-> << >>],
         thetaF |-> [scalar |-> TRUE, v |-> << >>],
         pad_ct |-> << >>, mixed |-> 0, som_entered |-> FALSE, ops |-> 0 ]
  /\ mesh = [ phase |-> "none", n_z |-> 0, n_theta |-> 0, n_y |-> 0,
         ki |-> 0, kj |-> 0, k |-> 0, wrapped |-> FALSE ]
  /\ turb = [phase |-> "none", Reyn |-> 0, delta_turb |-> 0]
  /\ shaft = [ phase |-> "none", given |-> << >>, named |-> << >>,
                is_random |-> << >>, attribute_dict |-> << >>,
                new_args |-> << >>, elements |-> << >> ]
  /\ par = [phase |-> "none", a |-> << >>]
  /\ speed = 1
  /\ seen = [phase |-> "none", at |-> << >>]
  /\ asm = [phase |-> "none", n_z |-> 0, n_theta |-> 0, n_y |-> 0, n_p |-> 0, T_ref |-> 0,
            ki |-> 0, kj |-> 0, k |-> 0, MU |-> << >>, Mat_coef |-> << >>,
            Mat_coef_T |-> << >>, b_T |-> { }, lund |-> << >>]

\* variant: x0 mode keeps the velocity the previous call left
X0Velocity_Keep(v) == v
\* the pad velocity a call in x0 mode installs (lines 242-243)
X0Velocity(v) == 0

\* _forces, lines 234-253: the arguments become self.X, self.Y, self.Xpt,
\* self.Ypt; T_conv and T_mist are initialised
Enter(a) ==
  /\ fargs' = a
  /\ X' = IF a.mode = "x0" THEN PosX(a.a) ELSE a.a[1]
  /\ Y' = IF a.mode = "x0" THEN PosY(a.a) ELSE a.a[2]
  /\ Xpt' = IF a.mode = "x0" THEN X0Velocity(Xpt) ELSE a.a[3]
  /\ Ypt' = IF a.mode = "x0" THEN X0Velocity(Ypt) ELSE a.a[4]
  /\ T_conv' = (TConvInit * T_reserv) \div 1000
  /\ T_mist' = [p \in Pads |-> T_reserv]
  /\ passes' = 0
  /\ calls' = Append(calls, a)
  /\ pc' = "outer_test"

fields  == << P, Pdim, mu_l, Fhx, Fhy >>
arrays  == << T, T_new, mu_new, n_p, T_ref, prev_mist, last_dT >>
search  == << sim, nit >>

\* a caller invokes _forces(x0, y0, xpt0, ypt0) directly
CallForces ==
  /\ pc = "idle" /\ nops < MaxOps
  /\ UNCHANGED aux
  /\ \E a \in { [mode |-> "x0", a |-> x] : x \in ForcesPoints }
          \cup { [mode |-> "xy", a |-> x] : x \in ForcesPairs } : Enter(a)
  /\ stack' = << "_forces" >>
  /\ nops' = nops + 1
  /\ UNCHANGED << fat_mixt, equilibrium_pos, fields, arrays, search, method, Aux, kc, ret,
                  hist, eq_fields >>
  /\ lund_in' = << >>

\* run(x): minimize starts by scoring the initial guess (lines 911-918)
CallRun ==
  /\ pc = "idle" /\ nops < MaxOps
  /\ UNCHANGED aux
  /\ \E x \in StartPoints : Enter([mode |-> "x0", a |-> x])
  /\ stack' = << "run", "_score", "_forces" >>
  /\ sim' = << >> /\ nit' = 0
  /\ nops' = nops + 1
  /\ UNCHANGED << fat_mixt, equilibrium_pos, fields, arrays, method, Aux, kc, ret,
                  hist, eq_fields >>
  /\ lund_in' = << >>

\* coefficients(method): with no equilibrium position it calls
\* run([0.1, -0.1]) (lines 972-973), otherwise it branches on method
CallCoefficients ==
  /\ pc = "idle" /\ nops < MaxOps
  /\ UNCHANGED aux
  /\ \E m \in Methods : method' = m
  /\ nops' = nops + 1
  /\ IF equilibrium_pos = None
     THEN /\ Enter([mode |-> "x0", a |-> DefaultGuess])
          /\ stack' = << "coefficients", "run", "_score", "_forces" >>
          /\ sim' = << >> /\ nit' = 0
     ELSE /\ pc' = "method"
          /\ stack' = << "coefficients" >>
          /\ UNCHANGED << X, Y, Xpt, Ypt, T_conv, T_mist, passes, calls, fargs, search >>
  /\ UNCHANGED << fat_mixt, equilibrium_pos, fields, arrays, Aux, kc, ret,
                  hist, eq_fields >>
  /\ lund_in' = << >>

\* the outer while test holds (line 287): the arrays of the pass are re-made
\* (lines 289-298) and the for loop over the pads starts (line 309)
OuterEnter ==
  /\ pc = "outer_test" /\ OuterContinue(T_mist, T_conv)
  /\ UNCHANGED aux
  /\ P' = ConstField(0)
  /\ T' = ConstField((TInit * T_reserv) \div 1000)
  /\ T_new' = ConstField((TNewInit * T_reserv) \div 1000)
  /\ T_conv' = T_mist[0]
  /\ mu_new' = ConstField(MuInit)
  /\ n_p' = 0
  /\ T_ref' = T_mist[PrevPad(0)]
  /\ prev_mist' = T_mist
  /\ pc' = "inner_test"
  /\ UNCHANGED << fat_mixt, equilibrium_pos, X, Y, Xpt, Ypt, Pdim, mu_l, Fhx, Fhy,
                  T_mist, passes, last_dT, stack, fargs, method, search, Aux, kc, ret, ghost >>

\* the outer while test fails (line 287): the loop is left
OuterExit ==
  /\ pc = "outer_test" /\ ~OuterContinue(T_mist, T_conv)
  /\ UNCHANGED aux
  /\ pc' = "integrate"
  /\ UNCHANGED << inst, T_mist, T_conv, arrays, passes, stack, fargs, method, search,
                  Aux, kc, ret, ghost >>

\* the inner while test holds (lines 315-326)
InnerEnter ==
  /\ pc = "inner_test" /\ InnerContinue(T_new, T, n_p)
  /\ UNCHANGED aux
  /\ T_ref' = T_mist[PrevPad(n_p)]
  /\ mu_l' = mu_new
  /\ T' = [c \in Cells |-> IF c[3] = n_p THEN T_new[c] ELSE T[c]]
  /\ pc' = "pressure"
  /\ UNCHANGED << fat_mixt, equilibrium_pos, X, Y, Xpt, Ypt, P, Pdim, Fhx, Fhy,
                  T_mist, T_conv, T_new, mu_new, n_p, passes, prev_mist, last_dT,
                  stack, fargs, method, search, Aux, kc, ret, ghost >>

\* the inner while test fails: the for loop goes to the next pad (line 309),
\* or the pass ends
PadDone ==
  /\ pc = "inner_test" /\ ~InnerContinue(T_new, T, n_p)
  /\ UNCHANGED aux
  /\ last_dT' = [last_dT EXCEPT ![n_p] = << SqNormDiff(T_new, T, n_p), SqNorm(T, n_p) >>]
  /\ IF n_p + 1 < n_pad
     THEN /\ n_p' = n_p + 1
          /\ T_ref' = T_mist[PrevPad(n_p + 1)]
          /\ pc' = "inner_test"
          /\ UNCHANGED passes
     ELSE /\ pc' = "outer_test"
          /\ passes' = passes + 1
          /\ UNCHANGED << n_p, T_ref >>
  /\ UNCHANGED << inst, T_mist, T_conv, T, T_new, mu_new, prev_mist,
                  stack, fargs, method, search, Aux, kc, ret, ghost >>

\* lines 328-516: the pressure field of the pad is assembled, solved and
\* clamped; self.Pdim is recomputed from all of self.P
PressureBody ==
  /\ pc = "pressure"
  /\ P' = PressureSolve(P, X, Y, Xpt, Ypt, mu_new, n_p)
  /\ Pdim' = Dimensional(P')
  /\ pc' = "temperature"
  /\ UNCHANGED << fat_mixt, equilibrium_pos, X, Y, Xpt, Ypt, mu_l, Fhx, Fhy, locs,
                  stack, fargs, method, search, Aux, kc, ret, ghost >>

PressureStep == PressureBody /\ UNCHANGED aux

\* lines 518-862: the temperature field of the pad is assembled and solved,
\* T_mist[n_p] and mu_new (which self.mu_l aliases) are updated
TemperatureStep ==
  /\ pc = "temperature"
  /\ UNCHANGED aux
  /\ T_new' = TemperatureSolve(T_new, P, X, Y, mu_new, T_ref, n_p)
  /\ T_mist' = [T_mist EXCEPT ![n_p] = MixedTemperature(fat_mixt[n_p + 1], TEnd(T_new', n_p))]
  /\ mu_new' = ViscosityUpdate(mu_new, T_new', n_p)
  /\ mu_l' = mu_new'
  /\ pc' = "inner_test"
  /\ UNCHANGED << fat_mixt, equilibrium_pos, X, Y, Xpt, Ypt, P, Pdim, Fhx, Fhy,
                  T_conv, T, n_p, T_ref, passes, prev_mist, last_dT,
                  stack, fargs, method, search, Aux, kc, ret, ghost >>

\* lines 864-896: the forces are integrated, stored and returned
Integrate ==
  /\ Fhx' = ForceX(Pdim)
  /\ Fhy' = ForceY(Pdim)
  /\ hist' = Append(hist, << fargs, << Fhx', Fhy' >> >>)

\* _forces returns to a direct caller
ForcesReturn ==
  /\ pc = "integrate" /\ stack = << "_forces" >>
  /\ UNCHANGED aux
  /\ Integrate
  /\ ret' = [op |-> "_forces", val |-> << Fhx', Fhy' >>]
  /\ stack' = << >>
  /\ pc' = "idle"
  /\ UNCHANGED << fat_mixt, equilibrium_pos, X, Y, Xpt, Ypt, P, Pdim, mu_l, locs,
                  fargs, method, search, Aux, kc, eq_fields, lund_in, calls, nops >>

Caller(st) == st[Len(st) - 1]
Pop(st) == SubSeq(st, 1, Len(st) - 1)

\* _forces returns to _score, which returns the score to minimize
\* (lines 1446-1456)
ScoreReturn ==
  /\ pc = "integrate" /\ Len(stack) > 1 /\ Caller(stack) = "_score"
  /\ UNCHANGED aux
  /\ Integrate
  /\ sim' = Append(sim, [x |-> fargs.a, score |-> Score(Fhx', Fhy'),
                         P |-> P, mu_l |-> mu_l, Y |-> Y])
  /\ stack' = Pop(Pop(stack))
  /\ pc' = "minimize"
  /\ UNCHANGED << fat_mixt, equilibrium_pos, X, Y, Xpt, Ypt, P, Pdim, mu_l, locs,
                  fargs, method, nit, Aux, kc, ret, eq_fields, lund_in, calls, nops >>

\* minimize evaluates one more trial point
MinimizeNext ==
  /\ pc = "minimize" /\ nit < MaxIter /\ Candidates(sim) # << >>
  /\ UNCHANGED aux
  /\ Enter([mode |-> "x0", a |-> Head(Candidates(sim))])
  /\ nit' = nit + 1
  /\ stack' = stack \o << "_score", "_forces" >>
  /\ UNCHANGED << fat_mixt, equilibrium_pos, fields, arrays, sim, method, Aux, kc, ret,
                  hist, eq_fields, lund_in, nops >>

\* minimize stops; run stores res.x (line 919) and returns.  Inside
\* coefficients, the call of line 974 follows
RunReturn ==
  /\ pc = "minimize" /\ ~(nit < MaxIter /\ Candidates(sim) # << >>)
  /\ UNCHANGED aux
  /\ equilibrium_pos' = Overwrite(equilibrium_pos, Result(sim).x, Success(sim))
  /\ eq_fields' = << [P |-> Result(sim).P, mu_l |-> Result(sim).mu_l, Y |-> Result(sim).Y] >>
  /\ IF stack = << "run" >>
     THEN /\ stack' = << >>
          /\ pc' = "idle"
          /\ ret' = [op |-> "run", val |-> None]
     ELSE /\ stack' = << "coefficients", "coefficients" >>
          /\ pc' = "method"
          /\ UNCHANGED ret
  /\ UNCHANGED << fat_mixt, X, Y, Xpt, Ypt, fields, locs, fargs, method, search, Aux, kc,
                  hist, lund_in, calls, nops >>

\* what coefficients returns: the call of line 974 discards the inner
\* call's value, so the outer call falls off the end of the function
CoefficientsValue(st, coefs) == IF Len(st) > 1 THEN None ELSE coefs

\* coefficients with method "lund" (lines 976-977, 1070-1430)
LundMethod ==
  /\ pc = "method" /\ Dispatch(method) = "_lund_method"
  /\ UNCHANGED aux
  /\ lund_in' = << [P |-> P, mu_l |-> mu_l, Y |-> Y, x0 |-> equilibrium_pos,
                    Xpt |-> Xpt, Ypt |-> Ypt] >>
  /\ kc' = LundCoefficients(P, mu_l, equilibrium_pos, Y)
  /\ ret' = [op |-> "coefficients", val |-> CoefficientsValue(stack, kc')]
  /\ stack' = << >>
  /\ calls' = << >>
  /\ pc' = "idle"
  /\ UNCHANGED << inst, locs, fargs, method, search, Aux, hist, eq_fields, nops >>

\* coefficients with method "perturbation" (lines 978-979): the first of
\* the eight calls (line 1012)
PertStart ==
  /\ pc = "method" /\ Dispatch(method) = "_pertubation_method"
  /\ UNCHANGED aux
  /\ Aux' = << >>
  /\ calls' = << [mode |-> "xy", a |-> PertArgs(equilibrium_pos, 1)] >>
  /\ fargs' = [mode |-> "xy", a |-> PertArgs(equilibrium_pos, 1)]
  /\ X' = fargs'.a[1] /\ Y' = fargs'.a[2] /\ Xpt' = fargs'.a[3] /\ Ypt' = fargs'.a[4]
  /\ T_conv' = (TConvInit * T_reserv) \div 1000
  /\ T_mist' = [p \in Pads |-> T_reserv]
  /\ passes' = 0
  /\ pc' = "outer_test"
  /\ stack' = stack \o << "_pertubation_method", "_forces" >>
  /\ UNCHANGED << fat_mixt, equilibrium_pos, fields, arrays, method, search, kc, ret,
                  hist, eq_fields, lund_in, nops >>

\* _forces returns to _pertubation_method: the next call (lines 1013-1020)
PertNext ==
  /\ pc = "integrate" /\ Len(stack) > 1 /\ Caller(stack) = "_pertubation_method"
  /\ UNCHANGED aux
  /\ Len(Aux) < 7
  /\ Integrate
  /\ Aux' = Append(Aux, << Fhx', Fhy' >>)
  /\ Enter([mode |-> "xy", a |-> PertArgs(equilibrium_pos, Len(Aux) + 2)])
  /\ UNCHANGED << fat_mixt, equilibrium_pos, P, Pdim, mu_l, arrays, stack, method, search,
                  kc, ret, eq_fields, lund_in, nops >>

\* the eighth call returns: the coefficients are formed and returned
\* (lines 1024-1068)
PertReturn ==
  /\ pc = "integrate" /\ Len(stack) > 1 /\ Caller(stack) = "_pertubation_method"
  /\ UNCHANGED aux
  /\ Len(Aux) = 7
  /\ Integrate
  /\ Aux' = Append(Aux, << Fhx', Fhy' >>)
  /\ kc' = PertCoefficients(Aux', equilibrium_pos)
  /\ ret' = [op |-> "coefficients", val |-> CoefficientsValue(Pop(Pop(stack)), kc')]
  /\ stack' = << >>
  /\ pc' = "idle"
  /\ UNCHANGED << fat_mixt, equilibrium_pos, X, Y, Xpt, Ypt, P, Pdim, mu_l, locs,
                  fargs, method, search, eq_fields, lund_in, calls, nops >>

Next ==
  \/ CallForces \/ CallRun \/ CallCoefficients
  \/ OuterEnter \/ OuterExit \/ InnerEnter \/ PadDone
  \/ PressureStep \/ TemperatureStep
  \/ ForcesReturn \/ ScoreReturn \/ MinimizeNext \/ RunReturn
  \/ LundMethod \/ PertStart \/ PertNext \/ PertReturn

Spec == Init /\ [][Next]_vars

(***************************************************************************)
(* Properties.                                                             *)
(***************************************************************************)
Returned(op) == pc = "idle" /\ ret.op = op
RunInProgress == \E i \in 1 .. Len(stack) : stack[i] = "run"
TolScore == 0

\* C1: a coefficients call, made with equilibrium_pos unset or set, returns
\* the (K, C) pair to its caller, never an empty result
C1_ReturnsPair == Returned("coefficients") => ret.val # None

\* C2: whenever the Lund method executes, the pressure field, viscosity
\* field and rotor offset it reads are the ones the coupling loop computed
\* at the stored equilibrium position with zero rotor velocity
C2_LundReadsEquilibrium ==
  lund_in # << >> =>
    /\ eq_fields # << >>
    /\ lund_in[1].P = eq_fields[1].P
    /\ lund_in[1].mu_l = eq_fields[1].mu_l
    /\ lund_in[1].Y = eq_fields[1].Y
    /\ lund_in[1].Xpt = 0 /\ lund_in[1].Ypt = 0

\* C3: two finished _forces calls with identical arguments returned
\* identical (Fhx, Fhy), whatever ran before or between them
C3_Deterministic ==
  \A i, j \in 1 .. Len(hist) : hist[i][1] = hist[j][1] => hist[i][2] = hist[j][2]
\* the same arguments were evaluated twice, with a call at a perturbed
\* velocity in between
C3_Witness ==
  \E i, j, k \in 1 .. Len(hist) :
    /\ i < k /\ k < j
    /\ hist[i][1] = hist[j][1] /\ hist[i][1].mode = "x0"
    /\ hist[k][1].mode = "xy" /\ hist[k][1].a[4] # 0

\* C4: every entry of the pressure field P of every pad is >= 0, after every
\* pressure solve and when _forces returns
C4_NonNegative == \A c \in Cells : P[c] >= 0
\* a pressure solve has just clamped a negative solution
C4_Witness ==
  /\ pc = "temperature"
  /\ \E c \in Cells :
       c[3] = n_p /\ PressureRaw(X, Y, Xpt, Ypt, mu_new, c) < 0 /\ P[c] = 0

ScoreAt(x) == sim[CHOOSE i \in 1 .. Len(sim) : sim[i].x = x].score

C6_ExitsWhenStable == pc = "integrate" => Abs(T_mist[0] - T_conv) < TolMist

\* C7: when _forces returns, the last inner iteration of each pad changed
\* its temperature field by a relative norm below 1e-3, and the mixed
\* temperature of each pad changed by less than 1e-2 over the last outer pass
C7_AllPadsConverged ==
  pc = "integrate" =>
    \A p \in Pads :
      /\ last_dT[p][1] * TolFieldInv * TolFieldInv < last_dT[p][2]
      /\ Abs(T_mist[p] - prev_mist[p]) < TolMist

C8_Calls(eq) ==
  LET xeq == eq[1] * Cos10(eq[2]) * 100
      yeq == eq[1] * Sin10(eq[2]) * 100
      ex  == Abs(Cos10(eq[2]))
      ey  == Abs(Sin10(eq[2]))
      vx  == Abs(Sin10(eq[2]))
      vy  == Abs(Cos10(eq[2]))
  IN  << << xeq + ex, yeq, 0, 0 >>, << xeq - ex, yeq, 0, 0 >>,
         << xeq, yeq + ey, 0, 0 >>, << xeq, yeq - ey, 0, 0 >>,
         << xeq, yeq, vx, 0 >>, << xeq, yeq, -vx, 0 >>,
         << xeq, yeq, 0, vy >>, << xeq, yeq, 0, -vy >> >>
\* coefficient n is the difference of component comp of the pair (a, b),
\* over eps, weighted by a Sommerfeld number of two forces of that pair
C8_FromPair(n, a, b, comp, sign, eps) ==
  \E u, v \in { Aux[a][1], Aux[a][2], Aux[b][1], Aux[b][2] } :
    kc[n] = Coef(u, v, sign * (Aux[a][comp] - Aux[b][comp]), eps)
C8_AtReturn ==
  (Returned("coefficients") /\ method = "perturbation") =>
    /\ Len(calls) = 8 /\ Len(Aux) = 8
    /\ \A k \in 1 .. 8 :
         calls[k] = [mode |-> "xy", a |-> C8_Calls(equilibrium_pos)[k]]
    /\ C8_FromPair(1, 1, 2, 1, 1, Abs(Cos10(equilibrium_pos[2])))
    /\ C8_FromPair(3, 1, 2, 2, 1, Abs(Cos10(equilibrium_pos[2])))
    /\ C8_FromPair(2, 3, 4, 1, 1, Abs(Sin10(equilibrium_pos[2])))
    /\ C8_FromPair(4, 3, 4, 2, 1, Abs(Sin10(equilibrium_pos[2])))
    /\ C8_FromPair(5, 5, 6, 1, -1, Abs(Sin10(equilibrium_pos[2])))
    /\ C8_FromPair(7, 5, 6, 2, -1, Abs(Sin10(equilibrium_pos[2])))
    /\ C8_FromPair(6, 7, 8, 1, -1, Abs(Cos10(equilibrium_pos[2])))
    /\ C8_FromPair(8, 7, 8, 2, -1, Abs(Cos10(equilibrium_pos[2])))
C8_Frame ==
  (\E i \in 1 .. Len(stack) : stack[i] = "_pertubation_method")
    => equilibrium_pos' = equilibrium_pos
\* C8: the perturbation method evaluates _forces exactly eight times, at the
\* four displaced positions with zero velocity and at the equilibrium
\* position with the four velocities, leaves equilibrium_pos unchanged, and
\* forms each coefficient from the force difference of the matching pair,
\* weighted by a Sommerfeld number of forces of that pair
C8_Perturbation == [](C8_AtReturn) /\ [][C8_Frame]_vars
\* a perturbation extraction has returned, with the two pairs of
\* displacement forces and the two pairs of velocity forces all different
C8_Witness ==
  /\ Returned("coefficients") /\ method = "perturbation"
  /\ Len(Aux) = 8
  /\ Aux[1] # Aux[2] /\ Aux[3] # Aux[4] /\ Aux[5] # Aux[6] /\ Aux[7] # Aux[8]
  /\ kc[1] # kc[2]

\* C9: one Lund extraction starts no _forces call and leaves the stored
\* pressure field, viscosity field, rotor offset and equilibrium_pos unchanged
C9_LundFrame ==
  [][ (pc = "method" /\ method = "lund") =>
        /\ pc' = "idle" /\ hist' = hist /\ calls' = << >>
        /\ UNCHANGED << P, Pdim, mu_l, X, Y, Xpt, Ypt, equilibrium_pos >> ]_vars
\* a Lund extraction has returned coefficients
C9_Witness ==
  /\ Returned("coefficients") /\ lund_in # << >>
  /\ kc # None /\ kc[1] # 0 /\ kc[5] # 0

C12_AlwaysOverwrites ==
  Returned("run") =>
    /\ equilibrium_pos = sim[BestIndex(sim)].x
    /\ ret.val = None

\* a run that stopped on the iteration limit has returned, its point stored
C12_Witness ==
  /\ Returned("run")
  /\ nit = MaxIter /\ ~Success(sim)
  /\ equilibrium_pos = sim[BestIndex(sim)].x

(***************************************************************************)
(* The bearing from its construction on.  __init__ (lines 129-209) stores  *)
(* its arguments without looking at them; what each argument does shows    *)
(* at the first statement that uses it.  The coupling loop itself is the   *)
(* machine above; here a force evaluation is the statements of _forces     *)
(* that touch the stored arguments and the grid attributes: the writes of  *)
(* lines 257-280 and the reads fat_mixt[n_p] of lines 852-855.             *)
(***************************************************************************)
MaxCalls == 2

\* T_muI, T_muF (degrees C) and mu_I, mu_F (1e-3 Pa s) the caller may pass
CalibTemps == { 50, 80 }
CalibVisc == { << 20, 10 >>, << 20, 20 >> }

\* fat_mixt as passed: "list, numpy array, tuple or float" (line 51)
FatInputs ==
  { [scalar |-> TRUE,  v |-> << 52 >>],
    [scalar |-> FALSE, v |-> << 52 >>],
    [scalar |-> FALSE, v |-> << 52, 48 >>],
    [scalar |-> FALSE, v |-> << 52, 48, 30 >>] }

\* sommerfeld_type as passed
SomTypes == 0 .. 3

\* _interpol: popt of curve_fit(viscosity, [T_muI, T_muF], [mu_I, mu_F]),
\* given by the value of the fitted curve a x^b at the two abscissae.  Two
\* distinct abscissae are interpolated; coincident abscissae leave a
\* singular least-squares problem, for which the library either returns the
\* least-squares curve (through the mean of the two ordinates) or gives up
\* with its RuntimeError.  _interpol itself tests nothing.
Interpol(T1, T2, m1, m2) ==
  IF T1 # T2
  THEN { [raised |-> FALSE, a_b |-> << m1, m2 >>] }
  ELSE { [raised |-> FALSE, a_b |-> << (m1 + m2) \div 2, (m1 + m2) \div 2 >>],
         [raised |-> TRUE,  a_b |-> << >>] }

\* np.array(fat_mixt)[p]: a 0-d array takes no index, a 1-d array takes
\* 0 .. len - 1
FatIndexable(f, p) == ~f.scalar /\ p < Len(f.v)

\* the pads whose T_mist is mixed before fat_mixt[n_p] fails, from pad p on
RECURSIVE MixPads(_, _)
MixPads(f, p) ==
  IF p = n_pad \/ ~FatIndexable(f, p) THEN p ELSE MixPads(f, p + 1)

\* sommerfeld: S is bound by the branch of type 1 or of type 2 only; Ss
\* reads S (line 1485)
SommerfeldBinds(type) == type = 1 \/ type = 2

\* __init__
Construct ==
  /\ ~brg.constructed /\ brg.err = ""
  /\ \E T1 \in CalibTemps, T2 \in CalibTemps, m \in CalibVisc,
        f \in FatInputs, st \in SomTypes :
       \E fit \in Interpol(T1, T2, m[1], m[2]) :
         brg' = [ constructed |-> ~fit.raised,
                  err |-> IF fit.raised THEN "RuntimeError" ELSE "",
                  T_muI |-> T1, T_muF |-> T2, mu_I |-> m[1], mu_F |-> m[2],
                  a_b |-> fit.a_b,
                  fat_mixt |-> f, sommerfeld_type |-> st,
                  thetaI |-> [scalar |-> TRUE, v |-> << 0 >>],
                  thetaF |-> [scalar |-> TRUE, v |-> << betha_s_dg \div 30 >>],
                  pad_ct |-> << >>, mixed |-> 0, som_entered |-> FALSE,
                  ops |-> 0 ]
  /\ UNCHANGED << inst, locs, ctl, ghost, mesh, turb, shaft, par, speed, seen, asm >>

\* what one _forces call leaves of the bearing b
ForcesOn(b) ==
  [ b EXCEPT
      !.pad_ct = [i \in 1 .. n_pad |-> pad_ct(i - 1)],
      !.thetaI = [scalar |-> FALSE, v |-> [i \in 1 .. n_pad |-> thetaI(i - 1)]],
      !.thetaF = [scalar |-> FALSE, v |-> [i \in 1 .. n_pad |-> thetaF(i - 1)]],
      !.mixed = MixPads(b.fat_mixt, 0),
      !.err = IF MixPads(b.fat_mixt, 0) < n_pad THEN "IndexError" ELSE "" ]

\* _forces(x0, None, None, None) on the constructed bearing
BearingForces ==
  /\ brg.constructed /\ brg.ops < MaxCalls
  /\ brg' = [ ForcesOn(brg) EXCEPT !.ops = brg.ops + 1 ]
  /\ UNCHANGED << inst, locs, ctl, ghost, mesh, turb, shaft, par, speed, seen, asm >>

\* coefficients(method="perturbation"): the _forces calls, then sommerfeld
BearingCoefficients ==
  /\ brg.constructed /\ brg.ops < MaxCalls
  /\ LET b == ForcesOn(brg) IN
       brg' = IF b.err # ""
              THEN [ b EXCEPT !.ops = brg.ops + 1 ]
              ELSE [ b EXCEPT !.ops = brg.ops + 1,
                              !.som_entered = TRUE,
                              !.err = IF SommerfeldBinds(b.sommerfeld_type)
                                      THEN "" ELSE "UnboundLocalError" ]
  /\ UNCHANGED << inst, locs, ctl, ghost, mesh, turb, shaft, par, speed, seen, asm >>

NextBearing == Construct \/ BearingForces \/ BearingCoefficients

SpecBearing == Init /\ [][NextBearing]_vars

\* C14: a bearing whose two calibration temperatures coincide is rejected at
\* construction: no bearing is ever constructed with T_muI = T_muF.
C14_RejectsCoincidentTemperatures ==
  brg.constructed => brg.T_muI # brg.T_muF

\* C15: a bearing whose mixing-fraction sequence is not one entry per pad is
\* rejected at construction: no force evaluation reads an entry of a
\* mixing-fraction array of the wrong length.
C15_RejectsWrongLength ==
  brg.mixed > 0 => Len(brg.fat_mixt.v) = n_pad

\* C16: a bearing with a Sommerfeld-type selector other than 1 and 2 is
\* rejected at construction: sommerfeld is never entered with such a selector.
C16_RejectsSelector ==
  brg.som_entered => brg.sommerfeld_type \in { 1, 2 }

\* C19: the grid constants, thetaI and thetaF among them, are determined at
\* construction and no later operation writes them.
C19_GridConstantsFrame ==
  [][ brg.constructed =>
        /\ brg'.thetaI = brg.thetaI
        /\ brg'.thetaF = brg.thetaF
        /\ brg'.pad_ct = brg.pad_ct ]_vars

(***************************************************************************)
(* The turbulence branch of the temperature loop (lines 617-638), for one  *)
(* cell.  Reyn is the local Reynolds number as a whole number, delta_turb  *)
(* is in units of 1e-4.                                                    *)
(***************************************************************************)
MaxReyn == 1200

DeltaOne == 10000

\* x ** (1 / 2) for x in units of 1e-4
Root2(x) == ISqrt(x * DeltaOne)

\* 1 - ((1000 - Reyn) / 500) ** (1 / 8)
Transition(Reyn) ==
  DeltaOne - Root2(Root2(Root2(((1000 - Reyn) * DeltaOne) \div 500)))

\* variant: the transition branch tested before the laminar one
DeltaTurb_TransitionFirst(Reyn, prev) ==
  IF Reyn > 400 /\ Reyn <= 1000 THEN Transition(Reyn)
  ELSE IF Reyn <= 500 THEN 0
  ELSE IF Reyn > 1000 THEN DeltaOne
  ELSE prev

\* the if / elif / elif of lines 626-638; prev is self.delta_turb as the
\* previous cell left it, kept when no branch is taken
DeltaTurb(Reyn, prev) ==
  IF Reyn <= 500 THEN 0
  ELSE IF Reyn > 400 /\ Reyn <= 1000 THEN Transition(Reyn)
  ELSE IF Reyn > 1000 THEN DeltaOne
  ELSE prev

\* one cell of the loop of lines 529-660, its Reynolds number any value
TurbCell ==
  /\ \E Reyn \in 0 .. MaxReyn :
       turb' = [ phase |-> "cell", Reyn |-> Reyn,
                 delta_turb |-> DeltaTurb(Reyn, turb.delta_turb) ]
  /\ UNCHANGED << inst, locs, ctl, ghost, brg, mesh, shaft, par, speed, seen, asm >>

NextTurb == TurbCell

SpecTurb == Init /\ [][NextTurb]_vars

\* C18 as stated: delta_turb is 0 when Re <= 500, the transition value when
\* 400 < Re <= 1000, and 1 when Re > 1000.
C18_AsStated ==
  turb.phase = "cell" =>
    /\ turb.Reyn <= 500 => turb.delta_turb = 0
    /\ (turb.Reyn > 400 /\ turb.Reyn <= 1000) =>
         turb.delta_turb = Transition(turb.Reyn)
    /\ turb.Reyn > 1000 => turb.delta_turb = DeltaOne

\* C18: delta_turb is 0 when Re <= 500, the transition value
\* 1 - ((1000 - Re)/500)^(1/8) when 500 < Re <= 1000, and 1 when Re > 1000.
C18_Piecewise ==
  turb.phase = "cell" =>
    /\ turb.Reyn <= 500 => turb.delta_turb = 0
    /\ (turb.Reyn > 500 /\ turb.Reyn <= 1000) =>
         turb.delta_turb = Transition(turb.Reyn)
    /\ turb.Reyn > 1000 => turb.delta_turb = DeltaOne

\* a cell between the two thresholds: laminar, where the transition formula
\* would give a negative factor
C18_Witness ==
  /\ turb.phase = "cell"
  /\ turb.Reyn > 400 /\ turb.Reyn <= 500
  /\ turb.delta_turb = 0
  /\ Transition(turb.Reyn) < 0

(***************************************************************************)
(* The assembly loops of _forces on a mesh of any size: for each cell      *)
(* (ki, kj) the nine `if` blocks that pick the neighbours (face            *)
(* viscosities, lines 355-412; pressure gradients, lines 534-610) and the  *)
(* if / elif chain that writes the row of the matrix (Mat_coef, lines      *)
(* 437-491; Mat_coef_T, lines 767-830).  Only the indices are kept.        *)
(***************************************************************************)
MaxMesh == 5

\* the entries of mu (of P) read for cell (ki, kj): the nine blocks are
\* separate `if`s, every block whose test holds runs
FaceReads(ki, kj, nz, nt) ==
  { << ki, kj >> }
  \cup (IF kj = 0 /\ ki = 0
        THEN { << ki, kj + 1 >>, << ki + 1, kj >> } ELSE { })
  \cup (IF kj = 0 /\ ki > 0 /\ ki < nz - 1
        THEN { << ki, kj + 1 >>, << ki - 1, kj >>, << ki + 1, kj >> } ELSE { })
  \cup (IF kj = 0 /\ ki = nz - 1
        THEN { << ki, kj + 1 >>, << ki - 1, kj >> } ELSE { })
  \cup (IF ki = 0 /\ kj > 0 /\ kj < nt - 1
        THEN { << ki, kj + 1 >>, << ki, kj - 1 >>, << ki + 1, kj >> } ELSE { })
  \cup (IF ki > 0 /\ ki < nz - 1 /\ kj > 0 /\ kj < nt - 1
        THEN { << ki, kj + 1 >>, << ki, kj - 1 >>, << ki - 1, kj >>, << ki + 1, kj >> }
        ELSE { })
  \cup (IF ki = nz - 1 /\ kj > 0 /\ kj < nt - 1
        THEN { << ki, kj + 1 >>, << ki, kj - 1 >>, << ki - 1, kj >> } ELSE { })
  \cup (IF ki = 0 /\ kj = nt - 1
        THEN { << ki, kj - 1 >>, << ki + 1, kj >> } ELSE { })
  \cup (IF kj = nt - 1 /\ ki > 0 /\ ki < nz - 1
        THEN { << ki, kj - 1 >>, << ki - 1, kj >>, << ki + 1, kj >> } ELSE { })
  \cup (IF kj = nt - 1 /\ ki = nz - 1
        THEN { << ki, kj - 1 >>, << ki - 1, kj >> } ELSE { })

\* the columns of row k - 1 written by the first branch whose test holds;
\* k is the cell counter after its increment (line 434)
MatCols(ki, kj, k, nz, nt, ny) ==
  IF ki = 0 /\ kj = 0 THEN { k - 1, k, k + nt - 1 }
  ELSE IF kj = 0 /\ ki > 0 /\ ki < nz - 1
    THEN { k - 1, k, k - nt - 1, k + nt - 1 }
  ELSE IF kj = 0 /\ ki = nz - 1 THEN { k - 1, k, k - nt - 1 }
  ELSE IF ki = 0 /\ kj > 0 /\ kj < ny - 1 THEN { k - 1, k, k - 2, k + nt - 1 }
  ELSE IF ki > 0 /\ ki < nz - 1 /\ kj > 0 /\ kj < ny - 1
    THEN { k - 1, k - 2, k - nt - 1, k + nt - 1, k }
  ELSE IF ki = nz - 1 /\ kj > 0 /\ kj < ny - 1 THEN { k - 1, k, k - 2, k - nt - 1 }
  ELSE IF ki = 0 /\ kj = ny - 1 THEN { k - 1, k - 2, k + nt - 1 }
  ELSE IF kj = ny - 1 /\ ki > 0 /\ ki < nz - 1
    THEN { k - 1, k - 2, k - nt - 1, k + nt - 1 }
  ELSE IF ki = nz - 1 /\ kj = ny - 1 THEN { k - 1, k - 2, k - nt - 1 }
  ELSE { }

\* an array axis of the given size takes the index i, counting from the end
\* when i is negative; any other index raises IndexError
Accepts(i, size) == i >= -size /\ i < size

\* i names an entry of the axis counted from its start
InRange(i, size) == i >= 0 /\ i < size

\* _forces entered on a bearing constructed with n_z, n_theta of any size
\* and n_y = None (lines 172-173)
MeshStart ==
  /\ mesh.phase = "none"
  /\ \E nz \in 1 .. MaxMesh, nt \in 1 .. MaxMesh :
       mesh' = [ phase |-> "loop", n_z |-> nz, n_theta |-> nt, n_y |-> nt,
                 ki |-> 0, kj |-> 0, k |-> 0, wrapped |-> FALSE ]
  /\ UNCHANGED << inst, locs, ctl, ghost, brg, turb, shaft, par, speed, seen, asm >>

\* one pass of the body of the loop over jj
MeshCell ==
  /\ mesh.phase = "loop" /\ mesh.ki < mesh.n_z
  /\ LET nz == mesh.n_z
         nt == mesh.n_theta
         reads == FaceReads(mesh.ki, mesh.kj, nz, nt)
         cols == MatCols(mesh.ki, mesh.kj, mesh.k + 1, nz, nt, mesh.n_y)
         raises == \/ \E r \in reads : ~Accepts(r[1], nz) \/ ~Accepts(r[2], nt)
                   \/ \E c \in cols : ~Accepts(c, nz * nt)
         wraps == \/ \E r \in reads : ~InRange(r[1], nz) \/ ~InRange(r[2], nt)
                  \/ \E c \in cols : ~InRange(c, nz * nt)
     IN  mesh' = IF raises
                 THEN [ mesh EXCEPT !.phase = "IndexError" ]
                 ELSE [ mesh EXCEPT
                          !.k = mesh.k + 1,
                          !.kj = IF mesh.kj + 1 = nt THEN 0 ELSE mesh.kj + 1,
                          !.ki = IF mesh.kj + 1 = nt THEN mesh.ki + 1 ELSE mesh.ki,
                          !.wrapped = mesh.wrapped \/ wraps ]
  /\ UNCHANGED << inst, locs, ctl, ghost, brg, turb, shaft, par, speed, seen, asm >>

\* the loops are over: np.linalg.solve
MeshSolve ==
  /\ mesh.phase = "loop" /\ mesh.ki = mesh.n_z
  /\ mesh' = [ mesh EXCEPT !.phase = "assembled" ]
  /\ UNCHANGED << inst, locs, ctl, ghost, brg, turb, shaft, par, speed, seen, asm >>

NextMesh == MeshStart \/ MeshCell \/ MeshSolve

SpecMesh == Init /\ [][NextMesh]_vars

\* C17: for every mesh with n_z >= 1 and n_theta >= 1 the assembly uses only
\* in-range indices of the grid and of the matrix, and completes without an
\* indexing failure.
C17_IndicesInRange ==
  mesh.phase # "IndexError" /\ ~mesh.wrapped

(***************************************************************************)
(* ST_ShaftElement (src/ross/stochastic/st_shaft_element.py).  A value is  *)
(* [list, v]: a list of numbers, or one number (v of length 1), or None (v *)
(* empty).  attribute_dict is the sequence of the values in the order of   *)
(* Keys, the order of the dict of lines 105-120 (the attributes after n    *)
(* are never random and are left out).                                     *)
(***************************************************************************)
ShaftSize == 2

Keys == << "L", "idl", "odl", "idr", "odr", "material", "n" >>

PosOf(key) == CHOOSE q \in 1 .. Len(Keys) : Keys[q] = key

\* key in a list of keys
InList(key, list) == \E j \in 1 .. Len(list) : list[j] = key

\* what the caller passes for a key: one number, a list of ShaftSize numbers,
\* a list one longer, or nothing
Shapes(key) ==
  IF key \in { "material", "n" } THEN { "number" }
  ELSE IF key \in { "idr", "odr" } THEN { "number", "list", "longer", "None" }
  ELSE { "number", "list", "longer" }

Passed(key, shape) ==
  IF shape = "None" THEN [list |-> FALSE, v |-> << >>]
  ELSE IF shape = "number" THEN [list |-> FALSE, v |-> << 10 * PosOf(key) >>]
  ELSE [ list |-> TRUE,
         v |-> [j \in 1 .. (IF shape = "list" THEN ShaftSize ELSE ShaftSize + 1)
                  |-> 10 * PosOf(key) + j] ]

\* variant: the right diameter is never added to is_random
AppendRight_Never(is_random, left, right, args) == is_random

\* lines 94-101: is_random once idr (odr) was found to be None
AppendRight(is_random, left, right, args) ==
  IF /\ args[PosOf(right)].v = << >>
     /\ InList(left, is_random) /\ ~InList(right, is_random)
  THEN Append(is_random, right)
  ELSE is_random

\* lines 94-99: idr = idl (odr = odl) when it was None
DefaultRight(args, left, right) ==
  IF args[PosOf(right)].v = << >> THEN args[PosOf(left)] ELSE args[PosOf(right)]

\* value[i] (i counted from 0) raises IndexError beyond the list
Indexable(value, i) == value.list /\ i < Len(value.v)

\* lines 156-161: arg of pass i, when every value[i] exists
ArgOf(is_random, dict, i) ==
  [ q \in 1 .. Len(Keys) |->
      IF InList(Keys[q], is_random)
      THEN [list |-> FALSE, v |-> << dict[q].v[i + 1] >>]
      ELSE dict[q] ]

\* __init__; is_random names some of the attributes passed as lists
ShaftInit ==
  /\ shaft.phase = "none"
  /\ \E shp \in [ { Keys[q] : q \in 1 .. Len(Keys) } ->
                    { "number", "list", "longer", "None" } ] :
       /\ \A q \in 1 .. Len(Keys) : shp[Keys[q]] \in Shapes(Keys[q])
       /\ \E named \in SUBSET { q \in 1 .. 5 : Passed(Keys[q], shp[Keys[q]]).list } :
            /\ named # { }
            /\ LET args == [q \in 1 .. Len(Keys) |-> Passed(Keys[q], shp[Keys[q]])]
                   rnd0 == [j \in 1 .. Cardinality(named) |->
                              Keys[CHOOSE q \in named :
                                     Cardinality({ r \in named : r < q }) = j - 1]]
                   rnd1 == AppendRight(rnd0, "idl", "idr", args)
                   rnd2 == AppendRight(rnd1, "odl", "odr", args)
               IN  shaft' = [ phase |-> "built", given |-> args, named |-> rnd0,
                              is_random |-> rnd2,
                              attribute_dict |->
                                [ args EXCEPT
                                    ![PosOf("idr")] = DefaultRight(args, "idl", "idr"),
                                    ![PosOf("odr")] = DefaultRight(args, "odl", "odr") ],
                              new_args |-> << >>, elements |-> << >> ]
  /\ UNCHANGED << inst, locs, ctl, ghost, brg, mesh, turb, par, speed, seen, asm >>

\* __iter__ -> random_var: one pass of the loop over i, or its end
ShaftArg ==
  /\ shaft.phase = "built"
  /\ LET i == Len(shaft.new_args)
         d == shaft.attribute_dict
         n == Len(d[PosOf(shaft.is_random[1])].v)
     IN  shaft' =
           IF i = n THEN [ shaft EXCEPT !.phase = "listed" ]
           ELSE IF \E q \in 1 .. Len(Keys) :
                     InList(Keys[q], shaft.is_random) /\ ~Indexable(d[q], i)
           THEN [ shaft EXCEPT !.phase = "IndexError" ]
           ELSE [ shaft EXCEPT !.new_args = Append(@, ArgOf(shaft.is_random, d, i)) ]
  /\ UNCHANGED << inst, locs, ctl, ghost, brg, mesh, turb, par, speed, seen, asm >>

\* the generator f_list consumed: one ShaftElement(*arg) per arg, an element
\* being the arguments it was made from
ShaftYield ==
  /\ shaft.phase = "listed"
  /\ shaft' = [ shaft EXCEPT
                  !.phase = "iterated",
                  !.elements = [j \in 1 .. Len(shaft.new_args) |->
                                  [args |-> shaft.new_args[j]]] ]
  /\ UNCHANGED << inst, locs, ctl, ghost, brg, mesh, turb, par, speed, seen, asm >>

NextShaft == ShaftInit \/ ShaftArg \/ ShaftYield

SpecShaft == Init /\ [][NextShaft]_vars

\* the lists of the random attributes all have ShaftSize entries
C20_OneLength ==
  \A q \in 1 .. Len(Keys) :
    InList(Keys[q], shaft.named) => Len(shaft.given[q].v) = ShaftSize

\* C20: when the random attribute lists have one length, iterating yields
\* that many elements (and does not fail); element i takes the i-th value of
\* every attribute named in is_random and the shared value of every other
\* attribute; when idr (odr) is omitted and idl (odl) is random, idr (odr) of
\* element i is the i-th value of idl (odl).
C20_Elements ==
  (shaft.phase \in { "IndexError", "iterated" } /\ C20_OneLength) =>
    /\ shaft.phase = "iterated"
    /\ Len(shaft.elements) = ShaftSize
    /\ \A i \in 1 .. Len(shaft.elements), q \in 1 .. Len(Keys) :
         LET e == shaft.elements[i].args[q]
             omitted == shaft.given[q].v = << >>
             left == IF Keys[q] = "idr" THEN PosOf("idl") ELSE PosOf("odl")
         IN  IF InList(Keys[q], shaft.named)
             THEN e = [list |-> FALSE, v |-> << shaft.given[q].v[i] >>]
             ELSE IF omitted /\ InList(Keys[left], shaft.named)
             THEN e = [list |-> FALSE, v |-> << shaft.given[left].v[i] >>]
             ELSE IF omitted THEN e = shaft.given[left]
             ELSE e = shaft.given[q]

\* idr omitted with idl random and odl shared: the elements are out
C20_Witness ==
  /\ shaft.phase = "iterated" /\ C20_OneLength
  /\ shaft.given[PosOf("idr")].v = << >>
  /\ InList("idl", shaft.named) /\ ~InList("odl", shaft.named)
  /\ Len(shaft.elements) = ShaftSize
  /\ shaft.elements[2].args[PosOf("idr")] = shaft.elements[2].args[PosOf("idl")]

(***************************************************************************)
(* The coupling loop of _forces on bearings of several speeds.  The        *)
(* heating of the energy equation grows with self.speed (auxb_T, line      *)
(* 711), and with it the swing of the inner iteration.                     *)
(***************************************************************************)
Speeds == { 1, 18 }

\* the rotor position of the calls
LoopPoints == { << 2, 11 >> }

\* the state of the running call, as far as its next steps depend on it
LoopState == << inst, locs, pc >>

\* __init__ with another speed (line 161), before the first call
SetSpeed ==
  /\ pc = "idle" /\ nops = 0 /\ speed = 1
  /\ speed' \in Speeds \ { 1 }
  /\ UNCHANGED << inst, locs, ctl, ghost, brg, mesh, turb, shaft, par, seen, asm >>

\* _forces(x0, None, None, None)
LoopCall ==
  /\ pc = "idle" /\ nops < MaxOps
  /\ \E x \in LoopPoints : Enter([mode |-> "x0", a |-> x])
  /\ stack' = << "_forces" >>
  /\ nops' = nops + 1
  /\ lund_in' = << >>
  /\ UNCHANGED << fat_mixt, equilibrium_pos, fields, arrays, search, method, Aux, kc, ret,
                  hist, eq_fields, brg, mesh, turb, shaft, par, speed, asm >>
  /\ seen' = [phase |-> "none", at |-> << >>]

\* the state at an inner test is kept
Observe ==
  /\ pc = "inner_test" /\ seen.phase = "none"
  /\ seen' = [phase |-> "kept", at |-> LoopState]
  /\ UNCHANGED << inst, locs, ctl, ghost, brg, mesh, turb, shaft, par, speed, asm >>

\* the call has left the state kept
Moved ==
  /\ seen.phase = "kept" /\ LoopState # seen.at
  /\ seen' = [seen EXCEPT !.phase = "left"]
  /\ UNCHANGED << inst, locs, ctl, ghost, brg, mesh, turb, shaft, par, speed, asm >>

NextLoop ==
  \/ SetSpeed \/ LoopCall
  \/ OuterEnter \/ OuterExit \/ InnerEnter \/ PadDone
  \/ PressureStep \/ TemperatureStep \/ ForcesReturn
  \/ Observe \/ Moved

InitLoop == Init /\ fat_mixt = << 100, 10 >>

SpecLoop == InitLoop /\ [][NextLoop]_vars

\* the two loop tests as the code writes them, on the operands of the
\* running call
C13_InnerUnmet ==
  (SqNorm(T, n_p) - 1) \div (TolFieldInv * TolFieldInv) < SqNormDiff(T_new, T, n_p)
C13_OuterUnmet == T_mist[0] - T_conv >= TolMist

\* C13: the inner and outer loops have no iteration cap.  The call comes to
\* its return only with the outer test met and, for every pad, the inner
\* test met at its last evaluation; while a test is unmet the only step of
\* the call is another pass of the loop, and no state of the call reports a
\* failure.
C13_NoCap ==
  /\ [](pc = "integrate" =>
          /\ T_mist[0] - T_conv < TolMist
          /\ \A p \in Pads :
               last_dT[p][1] <= (last_dT[p][2] - 1) \div (TolFieldInv * TolFieldInv))
  /\ [](pc \in { "idle", "outer_test", "inner_test", "pressure", "temperature",
                 "integrate" })
  /\ [][ /\ (pc = "inner_test" /\ C13_InnerUnmet /\ pc' # pc) => pc' = "pressure"
         /\ (pc = "outer_test" /\ C13_OuterUnmet /\ pc' # pc) => pc' = "inner_test"
       ]_vars

\* the call is back in a state it has left: its steps repeat from here
C13_Witness ==
  /\ pc = "inner_test" /\ seen.phase = "left" /\ LoopState = seen.at

(***************************************************************************)
(* Two _forces calls on one bearing.  The rotor position and velocity, the *)
(* pressure field and the viscosity are attributes of the bearing (self.X, *)
(* self.Y, self.Xpt, self.Ypt at lines 239-249, self.P at line 289): a     *)
(* second invocation that runs between two steps of the first one assigns  *)
(* them.  The second invocation is followed through its entry statements   *)
(* and the first statement of its first outer pass.                        *)
(***************************************************************************)

\* the arguments of the second invocation
OtherArgs ==
  { [mode |-> "x0", a |-> x] : x \in ForcesPoints }
    \cup { [mode |-> "xy", a |-> x] : x \in ForcesPairs }

\* lines 234-289 of the second invocation, run between two steps of the
\* first: its entry statements and the first statement of its first outer
\* pass (the outer test holds at entry, T_conv being 0.8 T_reserv)
OtherEnter ==
  /\ stack = << "_forces" >> /\ pc # "idle" /\ par.phase = "none"
  /\ \E b \in OtherArgs :
       /\ X' = IF b.mode = "x0" THEN PosX(b.a) ELSE b.a[1]
       /\ Y' = IF b.mode = "x0" THEN PosY(b.a) ELSE b.a[2]
       /\ Xpt' = IF b.mode = "x0" THEN X0Velocity(Xpt) ELSE b.a[3]
       /\ Ypt' = IF b.mode = "x0" THEN X0Velocity(Ypt) ELSE b.a[4]
       /\ par' = [phase |-> "entered", a |-> << b >>]
  /\ P' = ConstField(0)
  /\ UNCHANGED << fat_mixt, equilibrium_pos, Pdim, mu_l, Fhx, Fhy, locs, ctl, ghost,
                  brg, mesh, turb, shaft, speed, seen, asm >>

NextPar ==
  \/ CallForces
  \/ OuterEnter \/ OuterExit \/ InnerEnter \/ PadDone
  \/ PressureStep \/ TemperatureStep \/ ForcesReturn
  \/ OtherEnter

SpecPar == Init /\ [][NextPar]_vars

\* C11: two _forces calls on the same bearing, interleaved in any way, each
\* return what they return when run alone: while a call runs, the rotor
\* position it reads is the one of its own arguments, and two finished calls
\* with the same arguments have the same result, whether or not another
\* invocation ran between their steps
C11_SameAsAlone ==
  /\ (stack = << "_forces" >> /\ pc \notin { "idle", "integrate" }) =>
       /\ X = (IF fargs.mode = "x0" THEN PosX(fargs.a) ELSE fargs.a[1])
       /\ Y = (IF fargs.mode = "x0" THEN PosY(fargs.a) ELSE fargs.a[2])
  /\ \A i, j \in 1 .. Len(hist) :
       (i < j /\ hist[i][1] = hist[j][1]) => hist[i][2] = hist[j][2]

(***************************************************************************)
(* The inner loop of a pad (lines 309-326, 839-862).                       *)
(***************************************************************************)

\* the step that ends the inner loop of pad n_p
C22_PadExit == pc = "inner_test" /\ (n_p' # n_p \/ pc' = "outer_test")

\* C22: in every outer pass and for every pad the inner loop runs at least
\* once (at its exit T of the pad is no longer the array of ones of the pass
\* start); an inner iteration is a pressure solve, then a temperature solve,
\* then the viscosity update from the new temperature; the loop of a pad
\* exits only with the relative norm change of that pad's temperature below
\* 1e-3; T_mist starts at T_reserv for every pad
C22_InnerLoop ==
  [][ /\ C22_PadExit =>
           /\ \E c \in Cells : c[3] = n_p /\ T[c] # (TInit * T_reserv) \div 1000
           /\ SqNormDiff(T_new, T, n_p) <= (SqNorm(T, n_p) - 1) \div (TolFieldInv * TolFieldInv)
      /\ (pc # "pressure" /\ pc' = "pressure") => pc = "inner_test"
      /\ (pc = "pressure" /\ pc' # pc) =>
           /\ pc' = "temperature"
           /\ P' = PressureSolve(P, X, Y, Xpt, Ypt, mu_new, n_p)
           /\ T_new' = T_new /\ mu_new' = mu_new
      /\ (pc # "temperature" /\ pc' = "temperature") => pc = "pressure"
      /\ (pc = "temperature" /\ pc' # pc) =>
           /\ pc' = "inner_test"
           /\ P' = P
           /\ T_new' = TemperatureSolve(T_new, P, X, Y, mu_new, T_ref, n_p)
           /\ \A c \in Cells : c[3] = n_p => mu_new'[c] = Viscosity(T_new'[c])
      /\ (pc = "idle" /\ pc' = "outer_test") => \A p \in Pads : T_mist'[p] = T_reserv
    ]_vars
\* a second outer pass has ended: both pads have left their inner loops
\* twice
C22_Witness == pc = "outer_test" /\ passes >= 2

(***************************************************************************)
(* The outlet mixing of a pad (lines 848-855).                             *)
(***************************************************************************)

\* the sum of the new temperatures of the axial cells of the last
\* circumferential column of the pad being solved
C24_LastColumn == SumTo([i \in 1 .. n_z |-> T_new'[<< i - 1, n_theta - 1, n_p >>]], n_z)

\* C24: after each temperature solve of pad p, T_mist[p] is
\* f_p T_reserv + (1 - f_p) T_end with T_end the mean over the axial cells
\* of the last circumferential column of the pad; with 0 <= f_p <= 1 it lies
\* between T_reserv and T_end; the mixed temperatures of the other pads are
\* left as they were
C24_Mixing ==
  [][ (pc = "temperature" /\ pc' = "inner_test") =>
        LET T_end == C24_LastColumn \div n_z
            f == fat_mixt[n_p + 1]
            lo == IF T_reserv < T_end THEN T_reserv ELSE T_end
            hi == IF T_reserv < T_end THEN T_end ELSE T_reserv
        IN  /\ T_mist'[n_p] = (f * T_reserv + (100 - f) * T_end) \div 100
            /\ (0 <= f /\ f <= 100) => (lo <= T_mist'[n_p] /\ T_mist'[n_p] <= hi)
            /\ \A q \in Pads : q # n_p => T_mist'[q] = T_mist[q]
    ]_vars
\* in the first pass a temperature solve has left the mixed temperature of
\* its pad strictly between the reservoir temperature and T_end
C24_Witness ==
  /\ pc = "inner_test" /\ passes = 0
  /\ T_reserv < T_mist[n_p] /\ T_mist[n_p] < TEnd(T_new, n_p)
  /\ T_mist[n_p] = MixedTemperature(fat_mixt[n_p + 1], TEnd(T_new, n_p))

(***************************************************************************)
(* The viscosity kept on the instance (lines 323-324, 857-862).            *)
(* self.mu_l = mu_new binds the attribute to the array mu_new itself, and  *)
(* the viscosity update writes into that array.  Here every pressure solve *)
(* keeps, pad by pad, the viscosity it was assembled with.                 *)
(***************************************************************************)

\* the viscosities kept so far
SolvedWith == IF seen.at = << >> THEN ConstField(0) ELSE seen.at[1]

\* the pressure solve of pad n_p, its viscosity kept
PressureKept ==
  /\ PressureBody
  /\ seen' = [phase |-> "solved",
              at |-> << [c \in Cells |-> IF c[3] = n_p THEN mu_new[c] ELSE SolvedWith[c]] >>]
  /\ UNCHANGED << brg, mesh, turb, shaft, par, speed, asm >>

NextVisc ==
  \/ CallForces
  \/ OuterEnter \/ OuterExit \/ InnerEnter \/ PadDone
  \/ PressureKept \/ TemperatureStep \/ ForcesReturn

SpecVisc == Init /\ [][NextVisc]_vars

\* C27: when _forces returns, mu_l is, for every pad, the viscosity field
\* with which the stored pressure of that pad was solved in its last inner
\* iteration
C27_ViscosityOfSolve == pc = "integrate" => mu_l = SolvedWith

(***************************************************************************)
(* The angles of the force integration (lines 282-285, 864-896).           *)
(***************************************************************************)

\* the pressure of every cell times the direction cosine and sine of the
\* centre of the cell, summed over the pads
C28_CentreX ==
  SumTo([p \in 1 .. n_pad |->
    SumTo([k \in 1 .. NCells |->
      Pdim[CellOf(p - 1, k)] * Cos10(CellAngle(p - 1, CellOf(p - 1, k)[2]))], NCells)], n_pad)
C28_CentreY ==
  SumTo([p \in 1 .. n_pad |->
    SumTo([k \in 1 .. NCells |->
      Pdim[CellOf(p - 1, k)] * Sin10(CellAngle(p - 1, CellOf(p - 1, k)[2]))], NCells)], n_pad)

\* C28: in the force integration the angle multiplied with the pressure of
\* cell (i, j) of pad p is the centre of the cell, thetaI[p] + (j + 1/2)
\* dtheta, where that pressure was computed, pad 0 then pad 1: the forces
\* returned are the sums taken at the cell centres
C28_CellCentreAngles ==
  (pc = "idle" /\ ret.op = "_forces") =>
    /\ \A p \in Pads, j \in Cols : Ytheta(p, j) = CellAngle(p, j)
    /\ ret.val = << (-C28_CentreX) \div FDiv, (-C28_CentreY) \div FDiv >>

(***************************************************************************)
(* coefficients with a method name that is neither "lund" nor              *)
(* "perturbation" (lines 972-994).                                         *)
(***************************************************************************)
OtherMethods == { "other" }

\* coefficients(method): lines 972-974 come before the branch on method
CallUnknown ==
  /\ pc = "idle" /\ nops < MaxOps
  /\ UNCHANGED aux
  /\ \E m \in OtherMethods : method' = m
  /\ nops' = nops + 1
  /\ IF equilibrium_pos = None
     THEN /\ Enter([mode |-> "x0", a |-> DefaultGuess])
          /\ stack' = << "coefficients", "run", "_score", "_forces" >>
          /\ sim' = << >> /\ nit' = 0
     ELSE /\ pc' = "method"
          /\ stack' = << "coefficients" >>
          /\ UNCHANGED << X, Y, Xpt, Ypt, T_conv, T_mist, passes, calls, fargs, search >>
  /\ UNCHANGED << fat_mixt, equilibrium_pos, fields, arrays, Aux, kc, ret,
                  hist, eq_fields >>
  /\ lund_in' = << >>

\* lines 976-992: neither branch binds k and c, and the first statement
\* that reads them (print(k[0]) or coefs = (k, c)) raises
Unbound ==
  /\ pc = "method" /\ method \notin Methods
  /\ UNCHANGED aux
  /\ ret' = [op |-> "UnboundLocalError", val |-> None]
  /\ stack' = << >>
  /\ calls' = << >>
  /\ pc' = "idle"
  /\ UNCHANGED << inst, locs, fargs, method, search, Aux, kc, hist, eq_fields, lund_in, nops >>

NextMethod ==
  \/ CallRun \/ CallUnknown
  \/ OuterEnter \/ OuterExit \/ InnerEnter \/ PadDone
  \/ PressureStep \/ TemperatureStep
  \/ ScoreReturn \/ MinimizeNext \/ RunReturn
  \/ Unbound

SpecMethod == Init /\ [][NextMethod]_vars

\* a coefficients call with another method name is running
C30_InCall == stack # << >> /\ stack[1] = "coefficients" /\ method \notin Methods

\* C30: coefficients with a method name other than "lund" or
\* "perturbation" ends in an error in every state and never returns a
\* coefficient pair, and it starts no equilibrium search and leaves
\* equilibrium_pos as it was
C30_RejectsUntouched ==
  /\ [](method \notin Methods => ret.op # "coefficients")
  /\ [](C30_InCall => ~RunInProgress)
  /\ [][C30_InCall => (equilibrium_pos' = equilibrium_pos /\ pc' \in { "method", "idle" })]_vars

(***************************************************************************)
(* The assembly of the matrices of a pad: the pressure matrix and the      *)
(* temperature matrix of _forces (lines 355-491, 767-830) and the pressure *)
(* matrix of _lund_method (lines 1159-1358), cell by cell on the same      *)
(* mesh.  An entry is kept as the name of the conductance assigned and, on *)
(* the diagonal, the names of the conductances subtracted from CP; a face  *)
(* viscosity as the cells of mu it averages.  Meshes of one row or one     *)
(* column never get through their first cell and are left out here.        *)
(***************************************************************************)
MaxGrid == 4
Grids == 2 .. MaxGrid
NyValues == 1 .. (MaxGrid + 1)

\* the blocks of lines 355-412 (1159-1266 in _lund_method) are nine separate
\* ifs tested against n_theta: the last one whose test holds sets MU_e,
\* MU_w, MU_s, MU_n
FaceCase(ki, kj, nz, nt) ==
  IF kj = nt - 1 /\ ki = nz - 1 THEN 9
  ELSE IF kj = nt - 1 /\ ki > 0 /\ ki < nz - 1 THEN 8
  ELSE IF ki = 0 /\ kj = nt - 1 THEN 7
  ELSE IF ki = nz - 1 /\ kj > 0 /\ kj < nt - 1 THEN 6
  ELSE IF ki > 0 /\ ki < nz - 1 /\ kj > 0 /\ kj < nt - 1 THEN 5
  ELSE IF ki = 0 /\ kj > 0 /\ kj < nt - 1 THEN 4
  ELSE IF kj = 0 /\ ki = nz - 1 THEN 3
  ELSE IF kj = 0 /\ ki > 0 /\ ki < nz - 1 THEN 2
  ELSE IF kj = 0 /\ ki = 0 THEN 1
  ELSE 0

\* the cells of mu whose mean is the viscosity of each face in block `case`
FaceMu(case, ki, kj) ==
  [ e |-> IF case \in { 7, 8, 9 } THEN { << ki, kj >> } ELSE { << ki, kj >>, << ki, kj + 1 >> },
    w |-> IF case \in { 1, 2, 3 } THEN { << ki, kj >> } ELSE { << ki, kj >>, << ki, kj - 1 >> },
    s |-> IF case \in { 1, 4, 7 } THEN { << ki, kj >> } ELSE { << ki, kj >>, << ki - 1, kj >> },
    n |-> IF case \in { 3, 6, 9 } THEN { << ki, kj >> } ELSE { << ki, kj >>, << ki + 1, kj >> } ]

\* the branch of the if/elif chain of lines 437-491 (767-830 for the
\* temperature) taken for a cell: the theta tests read n_y; 0 is no branch
RowCase(ki, kj, nz, ny) ==
  IF ki = 0 /\ kj = 0 THEN 1
  ELSE IF kj = 0 /\ ki > 0 /\ ki < nz - 1 THEN 2
  ELSE IF kj = 0 /\ ki = nz - 1 THEN 3
  ELSE IF ki = 0 /\ kj > 0 /\ kj < ny - 1 THEN 4
  ELSE IF ki > 0 /\ ki < nz - 1 /\ kj > 0 /\ kj < ny - 1 THEN 5
  ELSE IF ki = nz - 1 /\ kj > 0 /\ kj < ny - 1 THEN 6
  ELSE IF ki = 0 /\ kj = ny - 1 THEN 7
  ELSE IF kj = ny - 1 /\ ki > 0 /\ ki < nz - 1 THEN 8
  ELSE IF ki = nz - 1 /\ kj = ny - 1 THEN 9
  ELSE 0

\* the assignments of a branch to row k - 1 of Mat_coef, in the order of
\* the code: << column, conductance, conductances subtracted >>
RowWrites(case, k, nt) ==
  IF case = 1 THEN << << k - 1, "CP", { "CS", "CW" } >>, << k, "CE", { } >>,
                      << k + nt - 1, "CN", { } >> >>
  ELSE IF case = 2 THEN << << k - 1, "CP", { "CW" } >>, << k, "CE", { } >>,
                           << k - nt - 1, "CS", { } >>, << k + nt - 1, "CN", { } >> >>
  ELSE IF case = 3 THEN << << k - 1, "CP", { "CN", "CW" } >>, << k, "CE", { } >>,
                           << k - nt - 1, "CS", { } >> >>
  ELSE IF case = 4 THEN << << k - 1, "CP", { "CS" } >>, << k, "CE", { } >>,
                           << k - 2, "CW", { } >>, << k + nt - 1, "CN", { } >> >>
  ELSE IF case = 5 THEN << << k - 1, "CP", { } >>, << k - 2, "CW", { } >>,
                           << k - nt - 1, "CS", { } >>, << k + nt - 1, "CN", { } >>,
                           << k, "CE", { } >> >>
  ELSE IF case = 6 THEN << << k - 1, "CP", { "CN" } >>, << k, "CE", { } >>,
                           << k - 2, "CW", { } >>, << k - nt - 1, "CS", { } >> >>
  ELSE IF case = 7 THEN << << k - 1, "CP", { "CE", "CS" } >>, << k - 2, "CW", { } >>,
                           << k + nt - 1, "CN", { } >> >>
  ELSE IF case = 8 THEN << << k - 1, "CP", { "CE" } >>, << k - 2, "CW", { } >>,
                           << k - nt - 1, "CS", { } >>, << k + nt - 1, "CN", { } >> >>
  ELSE IF case = 9 THEN << << k - 1, "CP", { "CE", "CN" } >>, << k - 2, "CW", { } >>,
                           << k - nt - 1, "CS", { } >> >>
  ELSE << >>

\* the branches _lund_method takes for a cell (lines 1302-1358): the chain
\* is broken at the fifth test, an `if`, so a branch of the first four and
\* one of the last five can both run; the theta tests read n_theta
LundCases(ki, kj, nz, nt) ==
  (IF ki = 0 /\ kj = 0 THEN << 1 >>
   ELSE IF kj = 0 /\ ki > 0 /\ ki < nz - 1 THEN << 2 >>
   ELSE IF kj = 0 /\ ki = nz - 1 THEN << 3 >>
   ELSE IF ki = 0 /\ kj > 0 /\ kj < nt - 1 THEN << 4 >>
   ELSE << >>)
  \o
  (IF ki > 0 /\ ki < nz - 1 /\ kj > 0 /\ kj < nt - 1 THEN << 5 >>
   ELSE IF ki = nz - 1 /\ kj > 0 /\ kj < nt - 1 THEN << 6 >>
   ELSE IF ki = 0 /\ kj = nt - 1 THEN << 7 >>
   ELSE IF kj = nt - 1 /\ ki > 0 /\ ki < nz - 1 THEN << 8 >>
   ELSE IF ki = nz - 1 /\ kj = nt - 1 THEN << 9 >>
   ELSE << >>)

RECURSIVE LundWrites(_, _, _)
LundWrites(cases, k, nt) ==
  IF cases = << >> THEN << >>
  ELSE RowWrites(Head(cases), k, nt) \o LundWrites(Tail(cases), k, nt)

\* variant: the inlet term in the two corner branches only
InletCase_Corners(case) == case \in { 1, 3 }

\* the inlet term 2 AW (T_ref / T_reserv) is subtracted from b_T in the
\* first three branches (lines 771-790)
InletCase(case) == case \in { 1, 2, 3 }

\* a row of np.zeros((nk, nk)), and a row after the assignments
ZeroRow(size) == [c \in 0 .. size - 1 |-> << "0", { } >>]
RECURSIVE Assign(_, _, _)
Assign(row, writes, size) ==
  IF writes = << >> THEN row
  ELSE LET w == Head(writes)
           c == IF w[1] < 0 THEN w[1] + size ELSE w[1]
       IN  Assign([row EXCEPT ![c] = << w[2], w[3] >>], Tail(writes), size)

\* the matrices are made (lines 304-305, 1103) and the loops over the cells
\* of pad n_p begin; T_ref = T_mist[n_p - 1] (lines 311, 321)
AsmStart ==
  /\ asm.phase = "none"
  /\ \E nz \in Grids, nt \in Grids, ny \in NyValues, p \in Pads :
       asm' = [ phase |-> "loop", n_z |-> nz, n_theta |-> nt, n_y |-> ny,
                n_p |-> p, T_ref |-> PrevPad(p), ki |-> 0, kj |-> 0, k |-> 0,
                MU |-> [r \in 0 .. nz * nt - 1 |-> << >>],
                Mat_coef |-> [r \in 0 .. nz * nt - 1 |-> ZeroRow(nz * nt)],
                Mat_coef_T |-> [r \in 0 .. nz * nt - 1 |-> { }],
                b_T |-> { },
                lund |-> [ MU |-> [r \in 0 .. nz * nt - 1 |-> << >>],
                           Mat_coef |-> [r \in 0 .. nz * nt - 1 |-> ZeroRow(nz * nt)] ] ]
  /\ UNCHANGED << inst, locs, ctl, ghost, brg, mesh, turb, shaft, par, speed, seen >>

\* one pass of the body of the loop over jj, in _forces and in _lund_method
AsmCell ==
  /\ asm.phase = "loop" /\ asm.ki < asm.n_z
  /\ LET nz == asm.n_z
         nt == asm.n_theta
         size == nz * nt
         r == asm.k
         case == RowCase(asm.ki, asm.kj, nz, asm.n_y)
         writes == RowWrites(case, r + 1, nt)
         lwrites == LundWrites(LundCases(asm.ki, asm.kj, nz, nt), r + 1, nt)
         raises == \/ \E i \in 1 .. Len(writes) : ~Accepts(writes[i][1], size)
                   \/ \E i \in 1 .. Len(lwrites) : ~Accepts(lwrites[i][1], size)
         faces == << FaceMu(FaceCase(asm.ki, asm.kj, nz, nt), asm.ki, asm.kj) >>
     IN  asm' = IF raises
                THEN [ asm EXCEPT !.phase = "IndexError" ]
                ELSE [ asm EXCEPT
                         !.k = r + 1,
                         !.kj = IF asm.kj + 1 = nt THEN 0 ELSE asm.kj + 1,
                         !.ki = IF asm.kj + 1 = nt THEN asm.ki + 1 ELSE asm.ki,
                         !.MU[r] = faces,
                         !.Mat_coef[r] = Assign(asm.Mat_coef[r], writes, size),
                         !.Mat_coef_T[r] = { IF writes[i][1] < 0 THEN writes[i][1] + size
                                             ELSE writes[i][1] : i \in 1 .. Len(writes) },
                         !.b_T = IF InletCase(case) THEN asm.b_T \cup { << asm.ki, asm.kj >> }
                                 ELSE asm.b_T,
                         !.lund.MU[r] = faces,
                         !.lund.Mat_coef[r] = Assign(asm.lund.Mat_coef[r], lwrites, size) ]
  /\ UNCHANGED << inst, locs, ctl, ghost, brg, mesh, turb, shaft, par, speed, seen >>

\* the loops are over: np.linalg.solve
AsmSolve ==
  /\ asm.phase = "loop" /\ asm.ki = asm.n_z
  /\ asm' = [ asm EXCEPT !.phase = "assembled" ]
  /\ UNCHANGED << inst, locs, ctl, ghost, brg, mesh, turb, shaft, par, speed, seen >>

NextAsm == AsmStart \/ AsmCell \/ AsmSolve

SpecAsm == Init /\ [][NextAsm]_vars

\* the rows assembled so far, and the cell of a row
AsmRows == IF asm.phase \in { "loop", "assembled", "IndexError" } THEN 0 .. asm.k - 1 ELSE { }
AsmKi(r) == r \div asm.n_theta
AsmKj(r) == r % asm.n_theta

\* C23: in the temperature assembly the inlet term 2 AW (T_ref / T_reserv)
\* enters the right-hand side of exactly the cells of the leading-edge
\* column kj = 0 of the pad, and T_ref is the mixed temperature of the pad
\* before it, index (p - 1) modulo the pad count
C23_InletColumn ==
  /\ \A r \in AsmRows : (<< AsmKi(r), AsmKj(r) >> \in asm.b_T) <=> (AsmKj(r) = 0)
  /\ \A c \in asm.b_T : c[2] = 0 /\ c[1] * asm.n_theta \in AsmRows
  /\ asm.phase # "none" => (asm.T_ref + 1) % n_pad = asm.n_p
\* the matrix of the first pad is assembled on a mesh with inner rows: the
\* term entered once per row, read from the last pad
C23_Witness ==
  /\ asm.phase = "assembled" /\ asm.n_z >= 3 /\ asm.n_p = 0
  /\ Cardinality(asm.b_T) = asm.n_z /\ asm.T_ref = n_pad - 1

\* C25: in the pressure matrix of _forces every cell's row has an
\* off-diagonal entry exactly for each neighbour inside the pad grid (east
\* and west in theta, north and south in Z), and its diagonal is
\* -(CE + CW + CN + CS) minus the conductance of each neighbour missing at a
\* theta or Z edge
C25_Neighbours ==
  \A r \in AsmRows :
    LET ki == AsmKi(r)
        kj == AsmKj(r)
        nz == asm.n_z
        nt == asm.n_theta
        row == asm.Mat_coef[r]
    IN  /\ row[r] = << "CP", (IF kj = nt - 1 THEN { "CE" } ELSE { })
                             \cup (IF kj = 0 THEN { "CW" } ELSE { })
                             \cup (IF ki = nz - 1 THEN { "CN" } ELSE { })
                             \cup (IF ki = 0 THEN { "CS" } ELSE { }) >>
        /\ \A c \in (0 .. nz * nt - 1) \ { r } :
             row[c] = IF c = r + 1 /\ kj < nt - 1 THEN << "CE", { } >>
                      ELSE IF c = r - 1 /\ kj > 0 THEN << "CW", { } >>
                      ELSE IF c = r + nt /\ ki < nz - 1 THEN << "CN", { } >>
                      ELSE IF c = r - nt /\ ki > 0 THEN << "CS", { } >>
                      ELSE << "0", { } >>

\* C26: the coefficient matrix _lund_method assembles for a pad is the one
\* the pressure solver of _forces assembles for it: the same boundary case
\* for every cell, the same face viscosities and conductances
C26_SameMatrix ==
  \A r \in AsmRows :
    /\ LundCases(AsmKi(r), AsmKj(r), asm.n_z, asm.n_theta)
         = << RowCase(AsmKi(r), AsmKj(r), asm.n_z, asm.n_y) >>
    /\ asm.lund.MU[r] = asm.MU[r]
    /\ asm.lund.Mat_coef[r] = asm.Mat_coef[r]

\* C29: for every n_y the constructor accepts, the boundary case of a
\* cell's matrix row (tested against n_y) is the case of its face
\* viscosities (tested against n_theta), and every one of the n_z n_theta
\* rows of the pressure and temperature matrices is written in the assembly
C29_EveryRowWritten ==
  /\ asm.phase # "IndexError"
  /\ \A r \in AsmRows :
       /\ RowCase(AsmKi(r), AsmKj(r), asm.n_z, asm.n_y)
            = FaceCase(AsmKi(r), AsmKj(r), asm.n_z, asm.n_theta)
       /\ asm.Mat_coef[r] # ZeroRow(asm.n_z * asm.n_theta)
       /\ asm.Mat_coef_T[r] # { }

====
